---- MODULE Spec2Model ----
(***************************************************************************)
(* Model of the dbhub MCP server: the Security Gate (internal/security),   *)
(* the tool handlers and the protocol dispatcher (internal/mcp/server.go), *)
(* and the two transports (STDIO and HTTP).                                *)
(*                                                                         *)
(* Text is a sequence of one-character strings, so that trimming, case     *)
(* folding, word boundaries and pattern matches are computed character by  *)
(* character as the Go code does.                                          *)
(***************************************************************************)
EXTENDS Integers, Sequences, FiniteSets, TLC

VARIABLES
    pc,            \* position of Server.Run: "read", "readerr", "handle", "write", "send",
                   \* "done", "panic", "blocked" (in an adapter call that never returns)
    cur,           \* the request Server.Run is handling (NoReq when none)
    resp,          \* the *Response handleRequest returned (NilResp for nil)
    adapterCalls,  \* adapter operations invoked while handling cur: <<[op, arg, out]>>
    toolCalled,    \* the tool handler invoked while handling cur ("" when none)
    gateChecks,    \* Security Gate checks made while handling cur: <<[check, arg, verdict]>>
    nread,         \* STDIO: number of input lines ReadRequest has consumed
    stdout,        \* STDIO: the lines written to the writer, in order
    callers,       \* HTTP: per inbound call, the state of its handleMCPRequest goroutine
    requestChan,   \* HTTP: the buffered request channel (queue of httpRequest)
    responseChan,  \* HTTP: the slot map, key -> caller whose respChan is stored
    sendTo,        \* HTTP: the respChan WriteResponse looked up (0 when none)
    respChans,     \* HTTP: per inbound call, the state of its respChan
    ctxDone,       \* HTTP: t.ctx has been cancelled (Close was called)
    routed,        \* HTTP: routeResponses has run its cleanup
    apiKey,        \* HTTP: the configured shared secret ("" when none)
    corsOrigins,   \* HTTP: the configured allow-list of origins
    everQueued,    \* HTTP: the inbound calls whose request was put on requestChan
    httpReq,       \* HTTP: the call whose request ReadRequest has taken off
                   \* requestChan and not yet stored a slot for (0 when none)
    closePc,       \* HTTP: the position of the call of HTTPTransport.Close
    cancelled,     \* the context main gave to Server.Run has been cancelled
    maxRows        \* Server.maxRows, the configured row cap

dvars == <<pc, cur, resp, adapterCalls, toolCalled, gateChecks, nread>>
svars == <<stdout>>
hvars == <<callers, requestChan, responseChan, sendTo, respChans, ctxDone, routed, apiKey, corsOrigins,
           everQueued, httpReq, closePc>>
vars  == <<pc, cur, resp, adapterCalls, toolCalled, gateChecks, nread, stdout,
           callers, requestChan, responseChan, sendTo, respChans, ctxDone, routed, apiKey, corsOrigins,
           everQueued, httpReq, closePc, cancelled, maxRows>>

----------------------------------------------------------------------------
(* Bounds of the model *)

\* the validator's configured maximum query length (NewValidator argument)
MaxQueryLength == 40
\* the configured row cap (Server.maxRows)
MaxRowsCfg == 2
\* STDIO: the number of input lines the client sends
MaxLines == 2
\* HTTP: the number of inbound calls
NumCallers == 2
\* HTTP: capacity of requestChan in the model
QueueCap == 1
\* Security Gate: the number of tokens a checked text is composed of
MaxTokens == 3
MaxCap == 13

----------------------------------------------------------------------------
(* Characters and strings (package strings, RE2 character classes) *)

LowerLetters == <<"a","b","c","d","e","f","g","h","i","j","k","l","m",
                  "n","o","p","q","r","s","t","u","v","w","x","y","z">>
UpperLetters == <<"A","B","C","D","E","F","G","H","I","J","K","L","M",
                  "N","O","P","Q","R","S","T","U","V","W","X","Y","Z">>
Digits == {"0","1","2","3","4","5","6","7","8","9"}

Range(s) == {s[i] : i \in DOMAIN s}

\* \w of RE2: [0-9A-Za-z_]
IsWordChar(c) == c \in Range(LowerLetters) \cup Range(UpperLetters) \cup Digits \cup {"_"}

\* \s of RE2: [\t\n\f\r ]
IsReSpace(c) == c \in {" ", "\t", "\n", "\f", "\r"}

\* the vertical tab (0x0B), one character
VT == ""

\* unicode.IsSpace restricted to ASCII, as strings.TrimSpace uses it:
\* '\t', '\n', '\v', '\f', '\r', ' '
IsSpace(c) == c \in {" ", "\t", "\n", VT, "\f", "\r"}

ToUpperChar(c) ==
    IF \E i \in DOMAIN LowerLetters : LowerLetters[i] = c
    THEN UpperLetters[CHOOSE i \in DOMAIN LowerLetters : LowerLetters[i] = c]
    ELSE c

\* strings.ToUpper
ToUpper(s) == [i \in DOMAIN s |-> ToUpperChar(s[i])]

\* strings.TrimSpace
TrimSpace(s) ==
    LET nonsp == {i \in DOMAIN s : ~IsSpace(s[i])}
    IN  IF nonsp = {} THEN <<>>
        ELSE LET lo == CHOOSE i \in nonsp : \A j \in nonsp : i <= j
                 hi == CHOOSE i \in nonsp : \A j \in nonsp : j <= i
             IN  SubSeq(s, lo, hi)

\* strings.HasPrefix
HasPrefix(s, p) == Len(s) >= Len(p) /\ SubSeq(s, 1, Len(p)) = p

\* s[i..] starts with p
MatchAt(s, i, p) == i + Len(p) - 1 <= Len(s) /\ SubSeq(s, i, i + Len(p) - 1) = p

\* strings.Contains
Contains(s, p) == \E i \in 1..(Len(s) + 1) : MatchAt(s, i, p)

\* the Go string of a text (used inside messages)
RECURSIVE Str(_)
Str(s) == IF s = <<>> THEN "" ELSE Head(s) \o Str(Tail(s))

----------------------------------------------------------------------------
(* Security Gate: internal/security validator *)

K_INSERT   == <<"I","N","S","E","R","T">>
K_UPDATE   == <<"U","P","D","A","T","E">>
K_DELETE   == <<"D","E","L","E","T","E">>
K_DROP     == <<"D","R","O","P">>
K_CREATE   == <<"C","R","E","A","T","E">>
K_ALTER    == <<"A","L","T","E","R">>
K_TRUNCATE == <<"T","R","U","N","C","A","T","E">>
K_REPLACE  == <<"R","E","P","L","A","C","E">>
K_MERGE    == <<"M","E","R","G","E">>
K_GRANT    == <<"G","R","A","N","T">>
K_REVOKE   == <<"R","E","V","O","K","E">>
K_SELECT   == <<"S","E","L","E","C","T">>
K_EXPLAIN  == <<"E","X","P","L","A","I","N">>
K_DESCRIBE == <<"D","E","S","C","R","I","B","E">>
K_SHOW     == <<"S","H","O","W">>
K_WITH     == <<"W","I","T","H">>
K_XPCMD    == <<"X","P","_","C","M","D","S","H","E","L","L">>
K_EXEC     == <<"E","X","E","C">>

writeKeywords_NoUpdate == <<K_INSERT, K_DELETE, K_DROP, K_CREATE, K_ALTER,
                            K_TRUNCATE, K_REPLACE, K_MERGE, K_GRANT, K_REVOKE>>

writeKeywords == <<K_INSERT, K_UPDATE, K_DELETE, K_DROP, K_CREATE, K_ALTER,
                   K_TRUNCATE, K_REPLACE, K_MERGE, K_GRANT, K_REVOKE>>

allowedKeywords == <<K_SELECT, K_EXPLAIN, K_DESCRIBE, K_SHOW, K_WITH>>

\* the alternatives of the first injection pattern
separatorKeywords == {K_DROP, K_DELETE, K_UPDATE, K_INSERT, K_CREATE, K_ALTER, K_TRUNCATE}

containsKeyword_Substring(query, keyword) == Contains(query, keyword)

\* regexp `\b` + keyword + `\b` on the query: the keyword as a whole word
containsKeyword(query, keyword) ==
    \E i \in 1..Len(query) :
        /\ MatchAt(query, i, keyword)
        /\ (i = 1 \/ ~IsWordChar(query[i - 1]))
        /\ (i + Len(keyword) > Len(query) \/ ~IsWordChar(query[i + Len(keyword)]))

\* (?i);\s*(DROP|DELETE|UPDATE|INSERT|CREATE|ALTER|TRUNCATE)
PatSeparatorWrite(q) ==
    LET u == ToUpper(q)
    IN  \E i \in DOMAIN q : \E j \in (i + 1)..(Len(q) + 1) :
            /\ q[i] = ";"
            /\ \A k \in (i + 1)..(j - 1) : IsReSpace(q[k])
            /\ \E kw \in separatorKeywords : MatchAt(u, j, kw)

\* (?i)--
PatLineComment(q) == Contains(q, <<"-", "-">>)

\* (?i)/\*.*\*/   (. does not match a newline)
PatBlockComment(q) ==
    \E i \in DOMAIN q : \E j \in (i + 2)..Len(q) :
        /\ MatchAt(q, i, <<"/", "*">>)
        /\ MatchAt(q, j, <<"*", "/">>)
        /\ \A k \in (i + 2)..(j - 1) : q[k] # "\n"

\* (?i)xp_cmdshell
PatXpCmdshell(q) == Contains(ToUpper(q), K_XPCMD)

\* (?i)exec\s*\(
PatExec(q) ==
    LET u == ToUpper(q)
    IN  \E i \in DOMAIN q : \E j \in (i + 4)..Len(q) :
            /\ MatchAt(u, i, K_EXEC)
            /\ \A k \in (i + 4)..(j - 1) : IsReSpace(q[k])
            /\ q[j] = "("

sqlInjectionPatterns(q) ==
    PatSeparatorWrite(q) \/ PatLineComment(q) \/ PatBlockComment(q)
        \/ PatXpCmdshell(q) \/ PatExec(q)

\* the verdict ALLOW is the nil error, modelled as the empty message
ALLOW == ""

ValidateReadOnlyQuery_NoStartCheck(query) ==
    LET normalizedQuery == TrimSpace(query)
        upperQuery == ToUpper(normalizedQuery)
        hits == {i \in DOMAIN writeKeywords : containsKeyword(upperQuery, writeKeywords[i])}
    IN  IF Len(query) > MaxQueryLength
        THEN "query exceeds maximum length of " \o ToString(MaxQueryLength) \o " characters"
        ELSE IF normalizedQuery = <<>>
        THEN "query cannot be empty"
        ELSE IF hits # {}
        THEN "write operation detected: "
                 \o Str(writeKeywords[CHOOSE i \in hits : \A j \in hits : i <= j])
                 \o " is not allowed"
        ELSE IF sqlInjectionPatterns(query)
        THEN "potentially dangerous SQL pattern detected"
        ELSE ALLOW

ValidateReadOnlyQuery_KeywordFirst(query) ==
    LET normalizedQuery == TrimSpace(query)
        upperQuery == ToUpper(normalizedQuery)
        hits == {i \in DOMAIN writeKeywords : containsKeyword(upperQuery, writeKeywords[i])}
    IN  IF hits # {}
        THEN "write operation detected: "
                 \o Str(writeKeywords[CHOOSE i \in hits : \A j \in hits : i <= j])
                 \o " is not allowed"
        ELSE IF Len(query) > MaxQueryLength
        THEN "query exceeds maximum length of " \o ToString(MaxQueryLength) \o " characters"
        ELSE IF normalizedQuery = <<>>
        THEN "query cannot be empty"
        ELSE IF ~\E i \in DOMAIN allowedKeywords : HasPrefix(upperQuery, allowedKeywords[i])
        THEN "query must start with SELECT, EXPLAIN, DESCRIBE, SHOW, or WITH"
        ELSE IF sqlInjectionPatterns(query)
        THEN "potentially dangerous SQL pattern detected"
        ELSE ALLOW

\* Validator.ValidateReadOnlyQuery: the error message, or ALLOW
ValidateReadOnlyQuery(query) ==
    LET normalizedQuery == TrimSpace(query)
        upperQuery == ToUpper(normalizedQuery)
        hits == {i \in DOMAIN writeKeywords : containsKeyword(upperQuery, writeKeywords[i])}
    IN  IF Len(query) > MaxQueryLength
        THEN "query exceeds maximum length of " \o ToString(MaxQueryLength) \o " characters"
        ELSE IF normalizedQuery = <<>>
        THEN "query cannot be empty"
        ELSE IF hits # {}
        THEN "write operation detected: "
                 \o Str(writeKeywords[CHOOSE i \in hits : \A j \in hits : i <= j])
                 \o " is not allowed"
        ELSE IF ~\E i \in DOMAIN allowedKeywords : HasPrefix(upperQuery, allowedKeywords[i])
        THEN "query must start with SELECT, EXPLAIN, DESCRIBE, SHOW, or WITH"
        ELSE IF sqlInjectionPatterns(query)
        THEN "potentially dangerous SQL pattern detected"
        ELSE ALLOW

\* the backtick character (the lexer of TLA+ does not accept it inside a string)
Backtick == "BACKTICK"

\* validPattern: one or more of \w, dot, backtick, double quote, anchored at both ends
validPattern(tableName) ==
    /\ tableName # <<>>
    /\ \A i \in DOMAIN tableName : IsWordChar(tableName[i]) \/ tableName[i] \in {".", Backtick, "\""}

dangerous_NoUpdate == {<<"-", "-">>, <<"/", "*">>, <<"*", "/">>, <<";">>, K_DROP, K_DELETE}

dangerous == {<<"-", "-">>, <<"/", "*">>, <<"*", "/">>, <<";">>, K_DROP, K_DELETE, K_UPDATE}

\* SanitizeTableName: the error message, or ALLOW
SanitizeTableName(tableName) ==
    IF tableName = <<>>
    THEN "table name cannot be empty"
    ELSE IF ~validPattern(tableName)
    THEN "invalid table name: " \o Str(tableName)
    ELSE IF \E d \in dangerous : Contains(ToUpper(tableName), d)
    THEN "potentially dangerous table name: " \o Str(tableName)
    ELSE ALLOW

----------------------------------------------------------------------------
(* Protocol data: Request, Response, ErrorObj, CallToolParams, CallToolResult *)

\* a request id as decoded from JSON: absent (nil), a number or a string;
\* v is what fmt.Sprintf("%v", id) prints for it
NoId == [t |-> "none", v |-> "<nil>"]
NumId(v) == [t |-> "num", v |-> v]
StrId(v) == [t |-> "str", v |-> v]
Ids == {NoId, NumId("1"), StrId("1"), NumId("2")}

\* fmt.Sprintf("%v", id): the key of the slot map
IdKey(id) == id.v

\* a named argument of a tool call: absent, present with a non-string value,
\* or a string
Missing == [t |-> "missing", s |-> <<>>]
NonString == [t |-> "nonstring", s |-> <<>>]
StrArg(s) == [t |-> "string", s |-> s]

T_select1 == <<"S","E","L","E","C","T"," ","1">>
T_lower   == <<"s","e","l","e","c","t"," ","a">>
T_updated == <<"S","E","L","E","C","T"," ","u","p","d","a","t","e","d","_","a">>
T_drop    == <<"d","r","o","p"," ","t">>
T_comment == <<"S","E","L","E","C","T"," ","1","-","-">>
T_values  == <<"V","A","L","U","E","S"," ","1">>
T_blank   == <<" "," ">>
\* a text longer than the configured maximum
T_long    == <<"S","E","L","E","C","T"," ">> \o [i \in 1..MaxQueryLength |-> "1"]
N_users   == <<"u","s","e","r","s">>
N_qual    == <<"d","b",".","u","s","e","r","s">>
N_updated == <<"u","p","d","a","t","e","d","_","x">>
N_space   == <<"a"," ","b">>

QueryTexts == {<<>>, T_select1, T_lower, T_updated, T_drop, T_comment, T_values, T_blank, T_long}
TableTexts == {<<>>, N_users, N_qual, N_updated, N_space}

QueryArgs == {Missing, NonString} \cup {StrArg(q) : q \in QueryTexts}
TableArgs == {Missing, NonString} \cup {StrArg(n) : n \in TableTexts}

\* params as CallToolParams decodes them; decodable is FALSE when
\* json.Unmarshal into CallToolParams fails
Args(tableName, query) == [table_name |-> tableName, query |-> query]
NoArgs == Args(Missing, Missing)
Params(name, args) == [decodable |-> TRUE, name |-> name, args |-> args]
NoParams == Params("", NoArgs)
Undecodable == [decodable |-> FALSE, name |-> "", args |-> NoArgs]

ToolParams ==
    {Undecodable, NoParams, Params("no_such_tool", NoArgs), Params("list_tables", NoArgs)}
    \cup {Params("describe_table", Args(a, Missing)) : a \in TableArgs}
    \cup {Params("describe_table", Args(Missing, StrArg(T_select1)))}
    \cup {Params("execute_readonly_query", Args(Missing, a)) : a \in QueryArgs}
    \cup {Params("explain_query", Args(Missing, a)) : a \in QueryArgs}

Request(id, method, params) == [id |-> id, method |-> method, params |-> params]
NoReq == Request(NoId, "", NoParams)

\* the method names of the switch of handleRequest
KnownMethods == {"initialize", "initialized", "tools/list", "tools/call", "ping"}

\* method names clients send: the known ones and names the switch does not
\* list (the comparison is exact, so another letter case is another name)
Methods == KnownMethods \cup {"foo", "", "PING", "notifications/initialized"}

Requests ==
    {Request(id, m, NoParams) : id \in Ids, m \in Methods \ {"tools/call"}}
    \cup {Request(id, "tools/call", p) : id \in Ids, p \in ToolParams}

NoResult == [kind |-> "nil"]
NoError == [set |-> FALSE, code |-> 0, message |-> "", data |-> ""]
ErrorObj(code, message, data) == [set |-> TRUE, code |-> code, message |-> message, data |-> data]
Response(id, result, error) == [jsonrpc |-> "2.0", id |-> id, result |-> result, error |-> error]
\* the nil *Response
NilResp == [isNil |-> TRUE]

TextContent(text) == [type |-> "text", text |-> text]
CallToolResult(content, isError) ==
    [kind |-> "CallToolResult", content |-> content, isError |-> isError]

----------------------------------------------------------------------------
(* Database adapter (external collaborator): each operation either fails   *)
(* with a detail message or returns n rows / tables / columns; rowsToResult *)
(* hands the scanned values over as they are, so a returned row may hold a *)
(* value json.MarshalIndent rejects (a float NaN or Inf): encodes = FALSE   *)

\* rowsToResult stops scanning when rowCount >= maxRows
RowCounts(cap) == 0..cap

\* ExecuteQuery returns at most s.maxRows rows; the model bounds the counts
\* of the other operations the same way
AdapterOutcomes ==
    {[out |-> "err", n |-> 0, encodes |-> TRUE]}
        \cup {[out |-> "ok", n |-> k, encodes |-> TRUE] : k \in RowCounts(maxRows)}
        \cup {[out |-> "ok", n |-> k, encodes |-> FALSE] : k \in RowCounts(maxRows) \ {0}}

AdapterErr == "adapter failure"
\* the error of json.MarshalIndent
EncodeErr == "json: unsupported value: NaN"
Payload == "<json>"
\* the rows / tables / columns an outcome hands to the handler
Rows(ab) == IF ab.out = "ok" THEN ab.n ELSE 0
\* the record of one adapter call: the operation, its argument, whether it
\* succeeded and the count it returned
AdapterCall(op, arg, out, n) == [op |-> op, arg |-> arg, out |-> out, n |-> n]
GateCheck(check, arg, verdict) == [check |-> check, arg |-> arg, verdict |-> verdict]

----------------------------------------------------------------------------
(* Tool handlers: each returns the result or the error, with the adapter   *)
(* calls and the gate checks it made                                       *)

HandlerOk(text, calls, checks) ==
    [result |-> CallToolResult(<<TextContent(text)>>, FALSE), err |-> "",
     calls |-> calls, checks |-> checks]
HandlerErr(err, calls, checks) ==
    [result |-> NoResult, err |-> err, calls |-> calls, checks |-> checks]

handleListTables(args, ab) ==
    LET calls == <<AdapterCall("ListTables", <<>>, ab.out, Rows(ab))>>
    IN  IF ab.out # "ok"
        THEN HandlerErr("failed to list tables: " \o AdapterErr, calls, <<>>)
        ELSE HandlerOk("Found " \o ToString(ab.n) \o " tables:\n\n" \o Payload, calls, <<>>)

handleDescribeTable_NoArgCheck(args, ab) ==
    LET a == args.table_name
        tableName == a.s
        verdict == SanitizeTableName(tableName)
        checks == <<GateCheck("SanitizeTableName", tableName, verdict)>>
        calls == <<AdapterCall("DescribeTable", tableName, ab.out, Rows(ab))>>
    IN  IF verdict # ALLOW
        THEN HandlerErr("invalid table name: " \o verdict, <<>>, checks)
        ELSE IF ab.out # "ok"
        THEN HandlerErr("failed to describe table: " \o AdapterErr, calls, checks)
        ELSE HandlerOk("Table '" \o Str(tableName) \o "' has " \o ToString(ab.n)
                           \o " columns:\n\n" \o Payload, calls, checks)

handleDescribeTable(args, ab) ==
    LET a == args.table_name
        tableName == a.s
        verdict == SanitizeTableName(tableName)
        checks == <<GateCheck("SanitizeTableName", tableName, verdict)>>
        calls == <<AdapterCall("DescribeTable", tableName, ab.out, Rows(ab))>>
    IN  IF a.t # "string" \/ tableName = <<>>
        THEN HandlerErr("table_name is required and must be a string", <<>>, <<>>)
        ELSE IF verdict # ALLOW
        THEN HandlerErr("invalid table name: " \o verdict, <<>>, checks)
        ELSE IF ab.out # "ok"
        THEN HandlerErr("failed to describe table: " \o AdapterErr, calls, checks)
        ELSE HandlerOk("Table '" \o Str(tableName) \o "' has " \o ToString(ab.n)
                           \o " columns:\n\n" \o Payload, calls, checks)

\* the warning sign that opens the notice, U+26A0 U+FE0F in the source. A Go
\* string is the sequence of the bytes of its UTF-8 encoding, and a text of
\* the model has one character per byte: the sign is the six characters
\* with the codes E2 9A A0 EF B8 8F
WarningSign == "â ï¸"

\* the truncation notice for the cap
LimitNote(cap) ==
    "\n\n" \o WarningSign \o "  Result limited to " \o ToString(cap) \o " rows (MAX_ROWS setting)"

\* the result text handleExecuteQuery builds from result.RowCount and
\* s.maxRows
ResultText(rowCount, cap) ==
    IF rowCount = 0
    THEN "Query returned no rows."
    ELSE "Query executed successfully. Returned " \o ToString(rowCount) \o " rows:\n\n"
             \o Payload
             \o (IF rowCount >= cap THEN LimitNote(cap) ELSE "")

\* the text block of a successful execute_readonly_query
ExecuteResultText(rowCount) == ResultText(rowCount, maxRows)

handleExecuteQuery_NoGate(args, ab) ==
    LET a == args.query
        query == a.s
        calls == <<AdapterCall("ExecuteQuery", query, ab.out, Rows(ab))>>
    IN  IF a.t # "string" \/ query = <<>>
        THEN HandlerErr("query is required and must be a string", <<>>, <<>>)
        ELSE IF ab.out # "ok"
        THEN HandlerErr("failed to execute query: " \o AdapterErr, calls, <<>>)
        ELSE IF ab.n # 0 /\ ~ab.encodes
        THEN HandlerErr("failed to format result: " \o EncodeErr, calls, <<>>)
        ELSE HandlerOk(ExecuteResultText(ab.n), calls, <<>>)

handleExecuteQuery(args, ab) ==
    LET a == args.query
        query == a.s
        verdict == ValidateReadOnlyQuery(query)
        checks == <<GateCheck("ValidateReadOnlyQuery", query, verdict)>>
        calls == <<AdapterCall("ExecuteQuery", query, ab.out, Rows(ab))>>
    IN  IF a.t # "string" \/ query = <<>>
        THEN HandlerErr("query is required and must be a string", <<>>, <<>>)
        ELSE IF verdict # ALLOW
        THEN HandlerErr("query validation failed: " \o verdict, <<>>, checks)
        ELSE IF ab.out # "ok"
        THEN HandlerErr("failed to execute query: " \o AdapterErr, calls, checks)
        ELSE IF ab.n # 0 /\ ~ab.encodes
        THEN HandlerErr("failed to format result: " \o EncodeErr, calls, checks)
        ELSE HandlerOk(ExecuteResultText(ab.n), calls, checks)

handleExplainQuery(args, ab) ==
    LET a == args.query
        query == a.s
        verdict == ValidateReadOnlyQuery(query)
        checks == <<GateCheck("ValidateReadOnlyQuery", query, verdict)>>
        calls == <<AdapterCall("ExplainQuery", query, ab.out, Rows(ab))>>
    IN  IF a.t # "string" \/ query = <<>>
        THEN HandlerErr("query is required and must be a string", <<>>, <<>>)
        ELSE IF verdict # ALLOW
        THEN HandlerErr("query validation failed: " \o verdict, <<>>, checks)
        ELSE IF ab.out # "ok"
        THEN HandlerErr("failed to explain query: " \o AdapterErr, calls, checks)
        ELSE IF ~ab.encodes
        THEN HandlerErr("failed to format result: " \o EncodeErr, calls, checks)
        ELSE HandlerOk("Query execution plan:\n\n" \o Payload, calls, checks)

----------------------------------------------------------------------------
(* Protocol dispatcher: internal/mcp/server.go *)

ProtocolVersion == "2024-11-05"
ServerName == "dbhub-mcp-server"
ServerVersion == "1.0.0"

\* Server.toolDefs after registerTools: the tools in registration order
toolDefs == <<"list_tables", "describe_table", "execute_readonly_query", "explain_query">>

tools_NoExplain == [list_tables |-> "handleListTables",
                    describe_table |-> "handleDescribeTable",
                    execute_readonly_query |-> "handleExecuteQuery"]

\* Server.tools after registerTools: tool name -> handler
tools == [list_tables |-> "handleListTables",
          describe_table |-> "handleDescribeTable",
          execute_readonly_query |-> "handleExecuteQuery",
          explain_query |-> "handleExplainQuery"]

\* Server.RegisterTool: append to toolDefs, store the handler under the name
RegisterTool(s, name, handler) ==
    [toolDefs |-> Append(s.toolDefs, name),
     tools |-> [n \in DOMAIN s.tools \cup {name} |-> IF n = name THEN handler ELSE s.tools[n]]]

\* NewServer followed by registerTools: four RegisterTool calls on the
\* empty registry
registerTools ==
    LET s0 == [toolDefs |-> <<>>, tools |-> [n \in {} |-> ""]]
        s1 == RegisterTool(s0, "list_tables", "handleListTables")
        s2 == RegisterTool(s1, "describe_table", "handleDescribeTable")
        s3 == RegisterTool(s2, "execute_readonly_query", "handleExecuteQuery")
    IN  RegisterTool(s3, "explain_query", "handleExplainQuery")

\* the call handler(ctx, params.Arguments)
CallHandler(handler, args, ab) ==
    CASE handler = "handleListTables" -> handleListTables(args, ab)
      [] handler = "handleDescribeTable" -> handleDescribeTable(args, ab)
      [] handler = "handleExecuteQuery" -> handleExecuteQuery(args, ab)
      [] handler = "handleExplainQuery" -> handleExplainQuery(args, ab)

\* what a dispatch returns: the response, the tool handler it invoked ("" when
\* none) and the adapter calls and gate checks made
Handled(r, handler, calls, checks) ==
    [resp |-> r, handler |-> handler, calls |-> calls, checks |-> checks]

handleInitialize(req) ==
    Handled(Response(req.id,
                     [kind |-> "InitializeResult", protocolVersion |-> ProtocolVersion,
                      listChanged |-> FALSE, name |-> ServerName, version |-> ServerVersion],
                     NoError),
            "", <<>>, <<>>)

handleInitialized(req) == Handled(NilResp, "", <<>>, <<>>)

handleToolsList(req) ==
    Handled(Response(req.id, [kind |-> "ListToolsResult", tools |-> toolDefs], NoError),
            "", <<>>, <<>>)

InvalidParams_InternalError(req) ==
    Response(req.id, NoResult, ErrorObj(-32603, "Invalid params", "json: cannot unmarshal"))

\* the envelope for params that do not decode into CallToolParams
InvalidParams(req) ==
    Response(req.id, NoResult, ErrorObj(-32602, "Invalid params", "json: cannot unmarshal"))

UnknownTool_MethodNotFound(req, name) ==
    Response(req.id, NoResult, ErrorObj(-32601, "Unknown tool: " \o name, ""))

\* the envelope for a tool name that is not in s.tools
UnknownTool(req, name) ==
    Response(req.id, NoResult, ErrorObj(-32602, "Unknown tool: " \o name, ""))

ToolFailure_ErrorChannel(req, err) ==
    Response(req.id, NoResult, ErrorObj(-32603, "Error: " \o err, ""))

ToolFailure_ResultAndError(req, err) ==
    Response(req.id, CallToolResult(<<TextContent("Error: " \o err)>>, TRUE),
             ErrorObj(-32603, "Error: " \o err, ""))

\* the envelope for a tool handler that returned an error
ToolFailure(req, err) ==
    Response(req.id, CallToolResult(<<TextContent("Error: " \o err)>>, TRUE), NoError)

handleToolsCall(req, ab) ==
    LET params == req.params
    IN  IF ~params.decodable
        THEN Handled(InvalidParams(req), "", <<>>, <<>>)
        ELSE IF params.name \notin DOMAIN tools
        THEN Handled(UnknownTool(req, params.name), "", <<>>, <<>>)
        ELSE LET h == CallHandler(tools[params.name], params.args, ab)
             IN  IF h.err # ""
                 THEN Handled(ToolFailure(req, h.err), tools[params.name], h.calls, h.checks)
                 ELSE Handled(Response(req.id, h.result, NoError),
                              tools[params.name], h.calls, h.checks)

handlePing_AlwaysOk(req, ab) ==
    Handled(Response(req.id, [kind |-> "status", status |-> "ok"], NoError),
            "", <<AdapterCall("Ping", <<>>, ab.out, 0)>>, <<>>)

handlePing(req, ab) ==
    LET calls == <<AdapterCall("Ping", <<>>, ab.out, 0)>>
    IN  IF ab.out # "ok"
        THEN Handled(Response(req.id, NoResult,
                              ErrorObj(-32603, "Database not available", AdapterErr)),
                     "", calls, <<>>)
        ELSE Handled(Response(req.id, [kind |-> "status", status |-> "ok"], NoError),
                     "", calls, <<>>)

handleRequest_InvalidRequest(req, ab) ==
    CASE req.method = "initialize" -> handleInitialize(req)
      [] req.method = "initialized" -> handleInitialized(req)
      [] req.method = "tools/list" -> handleToolsList(req)
      [] req.method = "tools/call" -> handleToolsCall(req, ab)
      [] req.method = "ping" -> handlePing(req, ab)
      [] OTHER -> Handled(Response(req.id, NoResult,
                                   ErrorObj(-32600, "Method not found: " \o req.method, "")),
                          "", <<>>, <<>>)

handleRequest(req, ab) ==
    CASE req.method = "initialize" -> handleInitialize(req)
      [] req.method = "initialized" -> handleInitialized(req)
      [] req.method = "tools/list" -> handleToolsList(req)
      [] req.method = "tools/call" -> handleToolsCall(req, ab)
      [] req.method = "ping" -> handlePing(req, ab)
      [] OTHER -> Handled(Response(req.id, NoResult,
                                   ErrorObj(-32601, "Method not found: " \o req.method, "")),
                          "", <<>>, <<>>)

----------------------------------------------------------------------------
(* Initial state: NewServer, NewStdioTransport, NewHTTPTransport *)

Callers == 1..NumCallers

\* an inbound call that has not arrived yet
NewCaller == [pc |-> "new", httpMethod |-> "", key |-> "", req |-> NoReq,
              got |-> NilResp, status |-> 0]

NoChan == [state |-> "none", msg |-> NilResp]
EmptyChan == [state |-> "empty", msg |-> NilResp]
FullChan(r) == [state |-> "full", msg |-> r]
ClosedChan == [state |-> "closed", msg |-> NilResp]

EmptyMap == [k \in {} |-> 0]

InitDispatcher ==
    /\ pc = "read"
    /\ cur = NoReq
    /\ resp = NilResp
    /\ adapterCalls = <<>>
    /\ toolCalled = ""
    /\ gateChecks = <<>>
    /\ nread = 0
    /\ cancelled = FALSE
    /\ maxRows = MaxRowsCfg

InitStdio == stdout = <<>>

InitHTTP ==
    /\ callers = [c \in Callers |-> NewCaller]
    /\ requestChan = <<>>
    /\ responseChan = EmptyMap
    /\ sendTo = 0
    /\ respChans = [c \in Callers |-> NoChan]
    /\ ctxDone = FALSE
    /\ routed = FALSE
    /\ everQueued = {}
    /\ httpReq = 0
    /\ closePc = "idle"

----------------------------------------------------------------------------
(* Dispatch: resp := s.handleRequest(ctx, req) in Server.Run, one action    *)
(* per route; ab is the outcome of the adapter operation the handler calls  *)

Dispatch(methods) ==
    /\ pc = "handle"
    /\ cur.method \in methods
    /\ \E ab \in AdapterOutcomes :
        LET h == handleRequest(cur, ab)
        IN  /\ resp' = h.resp
            /\ adapterCalls' = h.calls
            /\ toolCalled' = h.handler
            /\ gateChecks' = h.checks
    /\ pc' = "write"
    /\ UNCHANGED <<cur, nread, stdout, cancelled, maxRows, hvars>>

Initialize == Dispatch({"initialize"})
Initialized == Dispatch({"initialized"})
ToolsList == Dispatch({"tools/list"})
ToolsCall == Dispatch({"tools/call"})
Ping == Dispatch({"ping"})
MethodNotFound == Dispatch(Methods \ KnownMethods)

HandleRequest ==
    Initialize \/ Initialized \/ ToolsList \/ ToolsCall \/ Ping \/ MethodNotFound

LogReadError_Returns ==
    /\ pc = "readerr"
    /\ pc' = "done"
    /\ UNCHANGED <<cur, resp, adapterCalls, toolCalled, gateChecks, nread, stdout, cancelled, maxRows,
                   hvars>>

\* Server.Run after a ReadRequest error other than io.EOF: log it and continue
LogReadError ==
    /\ pc = "readerr"
    /\ pc' = "read"
    /\ UNCHANGED <<cur, resp, adapterCalls, toolCalled, gateChecks, nread, stdout, cancelled, maxRows, hvars>>

----------------------------------------------------------------------------
(* The dispatcher alone: Server.handleRequest applied to any sequence of   *)
(* requests, whatever transport carries them                               *)

\* a request reaches handleRequest
Accept ==
    /\ pc = "read"
    /\ \E req \in Requests : cur' = req
    /\ resp' = NilResp
    /\ adapterCalls' = <<>>
    /\ toolCalled' = ""
    /\ gateChecks' = <<>>
    /\ pc' = "handle"
    /\ UNCHANGED <<nread, stdout, cancelled, maxRows, hvars>>

\* handleRequest has returned its response to the caller
Return ==
    /\ pc = "write"
    /\ pc' = "read"
    /\ UNCHANGED <<cur, resp, adapterCalls, toolCalled, gateChecks, nread, stdout, cancelled, maxRows, hvars>>

\* the allow-list of the default configuration
DefaultOrigins == <<"*">>

Init == InitDispatcher /\ InitStdio /\ InitHTTP /\ apiKey = "" /\ corsOrigins = DefaultOrigins

Next ==
    \/ Accept
    \/ Initialize \/ Initialized \/ ToolsList \/ ToolsCall \/ Ping \/ MethodNotFound
    \/ Return

Spec == Init /\ [][Next]_vars

----------------------------------------------------------------------------
(* Sequential transport: Server.Run over StdioTransport *)

\* the requests a STDIO client sends in the model
StdioRequests ==
    {Request(id, m, NoParams) : id \in {NoId, NumId("1")}, m \in {"initialized", "ping", "foo"}}
    \cup {Request(NumId("2"), "initialize", NoParams),
          Request(NumId("2"), "tools/list", NoParams),
          Request(NumId("2"), "tools/call", Undecodable),
          Request(NumId("2"), "tools/call", Params("list_tables", NoArgs)),
          Request(NumId("2"), "tools/call", Params("execute_readonly_query",
                                                   Args(Missing, StrArg(T_drop))))}

\* json.Marshal(resp): a nil *Response marshals to the JSON text null; the
\* omitempty fields of a response are the ones that are unset in the record
NullLine == [json |-> "null"]
Marshal(r) == IF r = NilResp THEN NullLine ELSE r

StdioReadRequest_Pipelined ==
    /\ pc \in {"read", "write"}
    /\ nread < MaxLines
    /\ \E req \in StdioRequests : cur' = req
    /\ resp' = NilResp
    /\ adapterCalls' = <<>>
    /\ toolCalled' = ""
    /\ gateChecks' = <<>>
    /\ nread' = nread + 1
    /\ pc' = "handle"
    /\ UNCHANGED <<stdout, cancelled, maxRows, hvars>>

\* StdioTransport.ReadRequest returns a request: a well-formed line was read
StdioReadRequest ==
    /\ pc = "read"
    /\ nread < MaxLines
    /\ \E req \in StdioRequests : cur' = req
    /\ resp' = NilResp
    /\ adapterCalls' = <<>>
    /\ toolCalled' = ""
    /\ gateChecks' = <<>>
    /\ nread' = nread + 1
    /\ pc' = "handle"
    /\ UNCHANGED <<stdout, cancelled, maxRows, hvars>>

\* StdioTransport.ReadRequest fails to unmarshal the line: Run logs the
\* error and continues with the next ReadRequest
StdioReadMalformed ==
    /\ pc = "read"
    /\ nread < MaxLines
    /\ nread' = nread + 1
    /\ pc' = "readerr"
    /\ UNCHANGED <<cur, resp, adapterCalls, toolCalled, gateChecks, stdout, cancelled, maxRows, hvars>>

\* StdioTransport.ReadRequest returns io.EOF: Run returns nil
StdioReadEOF ==
    /\ pc = "read"
    /\ pc' = "done"
    /\ UNCHANGED <<cur, resp, adapterCalls, toolCalled, gateChecks, nread, stdout, cancelled, maxRows, hvars>>

\* the data of a response written without its newline
Unterminated(line) == [data |-> line, newline |-> FALSE]

\* the ways WriteResponse ends: json.Marshal or the first Write fails and
\* no line is written, the Write of the newline fails and the data stays
\* without it, or both Writes succeed
WriteOutcomes == {"failed", "unterminated", "written"}

\* the writer after WriteResponse(r) has ended with the outcome
WriteLine(out, r, outcome) ==
    IF outcome = "written" THEN Append(out, Marshal(r))
    ELSE IF outcome = "unterminated" THEN Append(out, Unterminated(Marshal(r)))
    ELSE out

\* StdioTransport.WriteResponse(resp): the marshalled response and a newline
\* are written; building the log line then reads resp.ID, which is a nil
\* pointer dereference when resp is nil. When Marshal or a Write fails the
\* error is returned before the log line, and Run logs it and reads on
StdioWriteResponse ==
    /\ pc = "write"
    /\ \E outcome \in WriteOutcomes :
        /\ stdout' = WriteLine(stdout, resp, outcome)
        /\ pc' = IF outcome = "written" /\ resp = NilResp THEN "panic" ELSE "read"
    /\ UNCHANGED <<cur, resp, adapterCalls, toolCalled, gateChecks, nread, hvars, cancelled, maxRows>>

\* StdioTransport.WriteError(id, code, message, data): builds the error
\* envelope
WriteError(id, code, message, data) == Response(id, NoResult, ErrorObj(code, message, data))

\* StdioTransport.WriteError called on the transport: the envelope goes
\* through WriteResponse, under its lock. The method is not part of the
\* MessageTransport interface and nothing in the program calls it, so no
\* specification takes this step
StdioWriteError(id, code, message, data) ==
    /\ \E outcome \in WriteOutcomes :
        stdout' = WriteLine(stdout, WriteError(id, code, message, data), outcome)
    /\ UNCHANGED <<pc, cur, resp, adapterCalls, toolCalled, gateChecks, nread, hvars, cancelled, maxRows>>

NextS ==
    \/ StdioReadRequest \/ StdioReadMalformed \/ StdioReadEOF \/ LogReadError
    \/ Initialize \/ Initialized \/ ToolsList \/ ToolsCall \/ Ping \/ MethodNotFound
    \/ StdioWriteResponse

SpecStdio == Init /\ [][NextS]_vars

----------------------------------------------------------------------------
(* Concurrent transport: Server.Run over HTTPTransport, with one goroutine *)
(* per inbound call running handleMCPRequest                               *)

\* the envelopes HTTP clients post in the model
HTTPRequests ==
    {Request(NumId("1"), "initialize", NoParams),
     Request(NoId, "initialize", NoParams),
     Request(StrId("1"), "initialized", NoParams)}

\* a body json.Decode rejects
Malformed == Request(NoId, "<malformed>", NoParams)

HTTPMethods == {"POST", "GET", "OPTIONS"}
Secret == "secret-key"
ProvidedKeys == {"", Secret, "wrong-key"}

\* delete(t.responseChan, key)
Delete(m, key) == [k \in DOMAIN m \ {key} |-> m[k]]
Store_KeepFirst(m, key, ch) ==
    [k \in DOMAIN m \cup {key} |-> IF k \in DOMAIN m THEN m[k] ELSE ch]

\* t.responseChan[key] = ch
Store(m, key, ch) == [k \in DOMAIN m \cup {key} |-> IF k = key THEN ch ELSE m[k]]

IsPreflight_Never(m) == FALSE

\* r.Method == http.MethodOptions
IsPreflight(m) == m = "OPTIONS"

Decodes_Always(body) == TRUE

\* json.NewDecoder(r.Body).Decode(&req) returns no error
Decodes(body) == body # Malformed

Authorized_Always(secret, provided) == TRUE

\* the API key check of handleMCPRequest
Authorized(secret, provided) == secret = "" \/ provided = secret

SlotFor_Any(m, id) == m[CHOOSE k \in DOMAIN m : TRUE]

\* respChan, ok := t.responseChan[fmt.Sprintf("%v", resp.ID)]
HasSlot(m, id) == IdKey(id) \in DOMAIN m
SlotFor(m, id) == m[IdKey(id)]

\* the handler goroutine of call c replies and returns
Reply(c, status, got) == [callers EXCEPT ![c].pc = "done", ![c].status = status, ![c].got = got]

\* the process is alive: a panic of the Run goroutine (pc = "panic") first
\* unwinds through the deferred calls of Run, and the handler goroutines go
\* on running until the runtime ends the process (pc = "crashed")
Alive == pc # "crashed"

\* the listener of the HTTP server is open: server.Shutdown has not closed it
Listening == closePc \in {"idle", "cancelled"}

\* a handler goroutine of the HTTP server is running for call c
Active(c) == callers[c].pc \in {"enqueue", "wait", "cleanup", "expired"}

\* handleMCPRequest up to the select that sends on requestChan
Arrive(c) ==
    /\ Alive
    /\ Listening
    /\ callers[c].pc = "new"
    /\ \A d \in Callers : d < c => callers[d].pc # "new"
    /\ \E m \in HTTPMethods : \E k \in ProvidedKeys : \E body \in HTTPRequests \cup {Malformed} :
        LET \* the X-API-Key header matters only when a secret is configured
            providedKey == IF apiKey # "" THEN k ELSE ""
            call == [callers[c] EXCEPT !.httpMethod = m, !.key = providedKey]
        IN  IF IsPreflight(m)
            THEN /\ callers' = [callers EXCEPT ![c] = [call EXCEPT !.pc = "done", !.status = 200]]
                 /\ UNCHANGED respChans
            ELSE IF m # "POST"
            THEN /\ callers' = [callers EXCEPT ![c] = [call EXCEPT !.pc = "done", !.status = 405]]
                 /\ UNCHANGED respChans
            ELSE IF ~Authorized(apiKey, providedKey)
            THEN /\ callers' = [callers EXCEPT ![c] = [call EXCEPT !.pc = "done", !.status = 401]]
                 /\ UNCHANGED respChans
            ELSE IF ~Decodes(body)
            THEN /\ callers' = [callers EXCEPT ![c] = [call EXCEPT !.pc = "done", !.status = 400]]
                 /\ UNCHANGED respChans
            ELSE /\ callers' = [callers EXCEPT ![c] = [call EXCEPT !.pc = "enqueue", !.req = body]]
                 /\ respChans' = [respChans EXCEPT ![c] = EmptyChan]
    /\ UNCHANGED <<dvars, svars, cancelled, maxRows, httpReq, closePc, requestChan, responseChan, sendTo, ctxDone, routed, apiKey, corsOrigins,
                   everQueued>>

\* case t.requestChan <- httpReq
Enqueue(c) ==
    /\ Alive
    /\ callers[c].pc = "enqueue"
    /\ Len(requestChan) < QueueCap
    /\ requestChan' = Append(requestChan, c)
    /\ callers' = [callers EXCEPT ![c].pc = "wait"]
    /\ everQueued' = everQueued \cup {c}
    /\ UNCHANGED <<dvars, svars, cancelled, maxRows, httpReq, closePc, responseChan, sendTo, respChans, ctxDone, routed, apiKey, corsOrigins>>

EnqueueTimeout_StillQueued(c) ==
    /\ Alive
    /\ callers[c].pc = "enqueue"
    /\ Len(requestChan) >= QueueCap
    /\ callers' = Reply(c, 503, NilResp)
    /\ requestChan' = Append(requestChan, c)
    /\ UNCHANGED <<dvars, svars, cancelled, maxRows, httpReq, closePc, responseChan, sendTo, respChans, ctxDone, routed,
                   apiKey, corsOrigins, everQueued>>

\* case <-time.After(5 * time.Second) of the enqueue select: the queue stayed full
EnqueueTimeout(c) ==
    /\ Alive
    /\ callers[c].pc = "enqueue"
    /\ Len(requestChan) >= QueueCap
    /\ callers' = Reply(c, 503, NilResp)
    /\ UNCHANGED <<dvars, svars, cancelled, maxRows, httpReq, closePc, requestChan, responseChan, sendTo, respChans, ctxDone, routed,
                   apiKey, corsOrigins, everQueued>>

\* case resp := <-respChan: a response is received, or nil from a closed channel
Receive(c) ==
    /\ Alive
    /\ callers[c].pc = "wait"
    /\ respChans[c].state \in {"full", "closed"}
    /\ callers' = [callers EXCEPT ![c].pc = "cleanup", ![c].got = respChans[c].msg]
    /\ respChans' = [respChans EXCEPT ![c] =
                        IF respChans[c].state = "full" THEN EmptyChan ELSE ClosedChan]
    /\ UNCHANGED <<dvars, svars, cancelled, maxRows, httpReq, closePc, requestChan, responseChan, sendTo, ctxDone, routed, apiKey, corsOrigins,
                   everQueued>>

\* after the receive: delete the slot under the lock and encode the response
\* into the ResponseWriter, which sets status 200 (a nil response encodes as
\* null); the log line then reads resp.ID, a nil pointer dereference when
\* resp is nil, and the handler goroutine panics
Cleanup(c) ==
    /\ Alive
    /\ callers[c].pc = "cleanup"
    /\ responseChan' = Delete(responseChan, IdKey(callers[c].req.id))
    /\ callers' = IF callers[c].got = NilResp
                  THEN [callers EXCEPT ![c].pc = "panic", ![c].status = 200]
                  ELSE Reply(c, 200, callers[c].got)
    /\ UNCHANGED <<dvars, svars, cancelled, maxRows, httpReq, closePc, requestChan, sendTo, respChans, ctxDone, routed, apiKey, corsOrigins,
                   everQueued>>

\* case <-time.After(60 * time.Second) of the response select
WaitTimeout(c) ==
    /\ Alive
    /\ callers[c].pc = "wait"
    /\ callers' = [callers EXCEPT ![c].pc = "expired"]
    /\ UNCHANGED <<dvars, svars, cancelled, maxRows, httpReq, closePc, requestChan, responseChan, sendTo, respChans, ctxDone, routed,
                   apiKey, corsOrigins, everQueued>>

\* after the timeout: delete the slot under the lock and reply 504
TimeoutCleanup(c) ==
    /\ Alive
    /\ callers[c].pc = "expired"
    /\ responseChan' = Delete(responseChan, IdKey(callers[c].req.id))
    /\ callers' = Reply(c, 504, NilResp)
    /\ UNCHANGED <<dvars, svars, cancelled, maxRows, httpReq, closePc, requestChan, sendTo, respChans, ctxDone, routed, apiKey, corsOrigins,
                   everQueued>>

\* the end of an iteration of the loop of Run: req and resp go out of scope
LoopBack ==
    /\ cur' = NoReq
    /\ resp' = NilResp
    /\ adapterCalls' = <<>>
    /\ toolCalled' = ""
    /\ gateChecks' = <<>>

HTTPReadRequest_WhileBusy ==
    /\ pc \in {"read", "write"}
    /\ requestChan # <<>>
    /\ httpReq' = Head(requestChan)
    /\ requestChan' = Tail(requestChan)
    /\ pc' = "store"
    /\ UNCHANGED <<cur, resp, adapterCalls, toolCalled, gateChecks, nread, svars, cancelled, maxRows,
                   callers, responseChan, sendTo, respChans, ctxDone, routed, apiKey, corsOrigins,
                   everQueued, closePc>>

\* HTTPTransport.ReadRequest, line 92: case httpReq := <-t.requestChan
HTTPReadRequest ==
    /\ pc = "read"
    /\ requestChan # <<>>
    /\ httpReq' = Head(requestChan)
    /\ requestChan' = Tail(requestChan)
    /\ pc' = "store"
    /\ UNCHANGED <<cur, resp, adapterCalls, toolCalled, gateChecks, nread, svars, cancelled, maxRows,
                   callers, responseChan, sendTo, respChans, ctxDone, routed, apiKey, corsOrigins,
                   everQueued, closePc>>

\* HTTPTransport.ReadRequest, lines 94-98: store the channel of the request
\* under its key, with the lock held, and return the request to Run
HTTPStoreSlot ==
    /\ pc = "store"
    /\ responseChan' = Store(responseChan, IdKey(callers[httpReq].req.id), httpReq)
    /\ cur' = callers[httpReq].req
    /\ httpReq' = 0
    /\ resp' = NilResp
    /\ adapterCalls' = <<>>
    /\ toolCalled' = ""
    /\ gateChecks' = <<>>
    /\ pc' = "handle"
    /\ UNCHANGED <<nread, svars, cancelled, maxRows, callers, requestChan, sendTo, respChans, ctxDone, routed,
                   apiKey, corsOrigins, everQueued, closePc>>

\* HTTPTransport.ReadRequest, case <-t.ctx.Done(): the error is not io.EOF,
\* so Run logs it and calls ReadRequest again
HTTPReadClosed ==
    /\ pc = "read"
    /\ ctxDone
    /\ pc' = "readerr"
    /\ UNCHANGED <<cur, resp, adapterCalls, toolCalled, gateChecks, nread, svars, cancelled, maxRows, hvars>>

\* HTTPTransport.WriteResponse up to the send: nil check and slot lookup
\* under the read lock
HTTPWriteResponse ==
    /\ pc = "write"
    /\ IF resp = NilResp \/ ~HasSlot(responseChan, resp.id)
       THEN /\ pc' = "read"
            /\ LoopBack
            /\ UNCHANGED sendTo
       ELSE /\ pc' = "send"
            /\ sendTo' = SlotFor(responseChan, resp.id)
            /\ UNCHANGED <<cur, resp, adapterCalls, toolCalled, gateChecks>>
    /\ UNCHANGED <<nread, svars, cancelled, maxRows, httpReq, closePc, callers, requestChan, responseChan, respChans, ctxDone,
                   routed, apiKey, corsOrigins, everQueued>>

\* the select of WriteResponse: respChan <- resp succeeds when the buffer is
\* free, panics on a closed channel, and times out after 5s when it is full
HTTPSend ==
    /\ pc = "send"
    /\ LET ch == respChans[sendTo]
       IN  IF ch.state = "closed"
           THEN /\ pc' = "panic"
                /\ UNCHANGED respChans
           ELSE IF ch.state = "empty"
           THEN /\ pc' = "read"
                /\ respChans' = [respChans EXCEPT ![sendTo] = FullChan(resp)]
           ELSE /\ pc' = "read"
                /\ UNCHANGED respChans
    /\ sendTo' = 0
    /\ LoopBack
    /\ UNCHANGED <<nread, svars, cancelled, maxRows, httpReq, closePc, callers, requestChan, responseChan, ctxDone, routed,
                   apiKey, corsOrigins, everQueued>>

\* HTTPTransport.Close, line 132: t.cancel()
Close ==
    /\ Alive
    /\ closePc = "idle"
    /\ ctxDone' = TRUE
    /\ closePc' = "cancelled"
    /\ UNCHANGED <<dvars, svars, cancelled, maxRows, callers, requestChan, responseChan, sendTo, respChans, routed,
                   apiKey, corsOrigins, everQueued, httpReq>>

\* HTTPTransport.Close, line 137: server.Shutdown closes the listener, so no
\* further call arrives, and then waits for the running handlers
Shutdown ==
    /\ Alive
    /\ closePc = "cancelled"
    /\ closePc' = "draining"
    /\ UNCHANGED <<dvars, svars, cancelled, maxRows, callers, requestChan, responseChan, sendTo, respChans, ctxDone,
                   routed, apiKey, corsOrigins, everQueued, httpReq>>

\* server.Shutdown returns: nil once no handler is running, and the error
\* of its 5-second context while one still is; Close returns nil or
\* "failed to shutdown HTTP server"
CloseReturn ==
    /\ Alive
    /\ closePc = "draining"
    /\ closePc' = IF \E c \in Callers : Active(c) THEN "failed" ELSE "closed"
    /\ UNCHANGED <<dvars, svars, cancelled, maxRows, callers, requestChan, responseChan, sendTo, respChans, ctxDone,
                   routed, apiKey, corsOrigins, everQueued, httpReq>>

\* the panic of the Run goroutine has run the deferred calls of Run
\* (transport.Close, whose Shutdown closes the listener and waits at most
\* 5 seconds for the handlers, and adapter.Close) and the runtime ends the
\* process
Crash ==
    /\ pc = "panic"
    /\ ~Listening
    /\ pc' = "crashed"
    /\ UNCHANGED <<cur, resp, adapterCalls, toolCalled, gateChecks, nread, svars, cancelled, maxRows, hvars>>

RouteResponses_ClearsOnly ==
    /\ Alive
    /\ ctxDone
    /\ ~routed
    /\ responseChan' = EmptyMap
    /\ routed' = TRUE
    /\ UNCHANGED <<dvars, svars, cancelled, maxRows, httpReq, closePc, callers, requestChan, sendTo, respChans, ctxDone, apiKey,
                   corsOrigins, everQueued>>

\* routeResponses after <-t.ctx.Done(): close every stored channel (a
\* response already in the buffer of a channel stays there) and replace the
\* map, under the lock
RouteResponses ==
    /\ Alive
    /\ ctxDone
    /\ ~routed
    /\ respChans' = [c \in Callers |->
                        IF \E k \in DOMAIN responseChan : responseChan[k] = c
                        THEN [respChans[c] EXCEPT !.state = "closed"] ELSE respChans[c]]
    /\ responseChan' = EmptyMap
    /\ routed' = TRUE
    /\ UNCHANGED <<dvars, svars, cancelled, maxRows, httpReq, closePc, callers, requestChan, sendTo, ctxDone, apiKey, corsOrigins, everQueued>>

\* the default configuration: no shared secret (the configurations with a
\* secret are those of SpecEndpoint)
InitH ==
    /\ InitDispatcher /\ InitStdio /\ InitHTTP
    /\ apiKey = ""
    /\ corsOrigins = DefaultOrigins

NextH ==
    \/ \E c \in Callers :
        \/ Arrive(c) \/ Enqueue(c) \/ EnqueueTimeout(c) \/ Receive(c) \/ Cleanup(c)
        \/ WaitTimeout(c) \/ TimeoutCleanup(c)
    \/ HTTPReadRequest \/ HTTPStoreSlot \/ HTTPReadClosed \/ LogReadError
    \/ Initialize \/ Initialized
    \/ HTTPWriteResponse \/ HTTPSend
    \/ Close \/ Shutdown \/ CloseReturn \/ RouteResponses \/ Crash

SpecHTTP == InitH /\ [][NextH]_vars

----------------------------------------------------------------------------
(* The RPC endpoint call by call: handleMCPRequest for one inbound call,   *)
(* with its HTTP method, X-API-Key, Origin and body recorded, under every  *)
(* configuration of the shared secret and the allow-list                   *)

\* the calls of this specification
EndpointCallers == {1}

EndpointMethods == {"POST", "GET", "OPTIONS", "PUT", "DELETE"}

OriginA == "https://a.example"
OriginB == "https://b.example"
\* the Origin header of a call ("" when the header is absent)
Origins == {"", OriginA, OriginB}
\* configurations of HTTPConfig.CORSOrigins
AllowLists == {<<>>, <<"*">>, <<OriginA>>, <<OriginA, "*">>, <<"*", OriginA>>}

\* the CORS headers of a reply ("" for a header that is not set)
CORSHeaders(allowOrigin, others) ==
    [allowOrigin |-> allowOrigin,
     allowMethods |-> IF others THEN "GET, POST, OPTIONS" ELSE "",
     allowHeaders |-> IF others THEN "Content-Type, X-API-Key" ELSE "",
     maxAge |-> IF others THEN "3600" ELSE ""]

setCORSHeaders_AlwaysWildcard(allowList, origin) == CORSHeaders("*", TRUE)

\* HTTPTransport.setCORSHeaders: the first entry of the allow-list that is
\* the wildcard or the caller's origin decides Access-Control-Allow-Origin
setCORSHeaders(allowList, origin) ==
    LET matches == {i \in DOMAIN allowList : allowList[i] = "*" \/ allowList[i] = origin}
        allowed == matches # {}
        first == CHOOSE i \in matches : \A j \in matches : i <= j
    IN  IF ~allowed /\ origin # ""
        THEN CORSHeaders("", FALSE)
        ELSE CORSHeaders(IF ~allowed THEN "" ELSE IF allowList[first] = "*" THEN "*" ELSE origin,
                         TRUE)

\* handleMCPRequest up to the select that sends on requestChan, for a call
\* with HTTP method m, X-API-Key k, Origin o and the given body
Call(c) ==
    /\ Alive
    /\ Listening
    /\ c \in EndpointCallers
    /\ callers[c].pc = "new"
    /\ \E m \in EndpointMethods : \E k \in ProvidedKeys : \E o \in Origins :
       \E body \in HTTPRequests \cup {Malformed} :
        LET call == [pc |-> "done", httpMethod |-> m, key |-> k, origin |-> o,
                     parsable |-> body # Malformed, cors |-> setCORSHeaders(corsOrigins, o),
                     req |-> NoReq, got |-> NilResp, status |-> 0]
        IN  IF IsPreflight(m)
            THEN /\ callers' = [callers EXCEPT ![c] = [call EXCEPT !.status = 200]]
                 /\ UNCHANGED respChans
            ELSE IF m # "POST"
            THEN /\ callers' = [callers EXCEPT ![c] = [call EXCEPT !.status = 405]]
                 /\ UNCHANGED respChans
            ELSE IF ~Authorized(apiKey, k)
            THEN /\ callers' = [callers EXCEPT ![c] = [call EXCEPT !.status = 401]]
                 /\ UNCHANGED respChans
            ELSE IF ~Decodes(body)
            THEN /\ callers' = [callers EXCEPT ![c] = [call EXCEPT !.status = 400]]
                 /\ UNCHANGED respChans
            ELSE /\ callers' = [callers EXCEPT ![c] = [call EXCEPT !.pc = "enqueue", !.req = body]]
                 /\ respChans' = [respChans EXCEPT ![c] = EmptyChan]
    /\ UNCHANGED <<dvars, svars, cancelled, maxRows, httpReq, closePc, requestChan, responseChan, sendTo, ctxDone, routed, apiKey,
                   corsOrigins, everQueued>>

\* the inbound calls of the health endpoint in this specification
HealthCallers == {2}

\* the body of a reply of the health endpoint
HealthBody == [status |-> "ok"]
NoBody == [status |-> ""]

handleHealthCheck_Authenticated(m, secret, key) ==
    IF IsPreflight(m) THEN [status |-> 200, body |-> NoBody]
    ELSE IF ~Authorized(secret, key) THEN [status |-> 401, body |-> NoBody]
    ELSE [status |-> 200, body |-> HealthBody]

\* HTTPTransport.handleHealthCheck after the CORS headers: the reply to a
\* call with HTTP method m; neither the secret nor the key is looked at
handleHealthCheck(m, secret, key) ==
    IF IsPreflight(m) THEN [status |-> 200, body |-> NoBody]
    ELSE [status |-> 200, body |-> HealthBody]

\* an inbound call of the health endpoint, served while the HTTP server runs
HealthCheck(h) ==
    /\ Alive
    /\ Listening
    /\ h \in HealthCallers
    /\ callers[h].pc = "new"
    /\ \E m \in {"GET", "OPTIONS"} : \E k \in {"", Secret} : \E o \in Origins :
        LET reply == handleHealthCheck(m, apiKey, k)
        IN  callers' = [callers EXCEPT ![h] =
                [pc |-> "done", httpMethod |-> m, key |-> k, origin |-> o,
                 cors |-> setCORSHeaders(corsOrigins, o),
                 status |-> reply.status, body |-> reply.body]]
    /\ UNCHANGED <<dvars, svars, cancelled, maxRows, httpReq, closePc, requestChan, responseChan, sendTo, respChans, ctxDone, routed,
                   apiKey, corsOrigins, everQueued>>

InitE ==
    /\ InitDispatcher /\ InitStdio /\ InitHTTP
    /\ apiKey \in {"", Secret}
    /\ corsOrigins \in AllowLists

NextE ==
    \/ \E c \in EndpointCallers :
        \/ Call(c) \/ Enqueue(c) \/ Receive(c) \/ Cleanup(c)
        \/ WaitTimeout(c) \/ TimeoutCleanup(c)
    \/ \E h \in HealthCallers : HealthCheck(h)
    \/ HTTPReadRequest \/ HTTPStoreSlot \/ HTTPReadClosed \/ LogReadError
    \/ Initialize \/ Initialized
    \/ HTTPWriteResponse \/ HTTPSend
    \/ Close \/ Shutdown \/ CloseReturn \/ RouteResponses \/ Crash

SpecEndpoint == InitE /\ [][NextE]_vars

----------------------------------------------------------------------------
(* The Security Gate alone: ValidateReadOnlyQuery and SanitizeTableName    *)
(* applied to texts composed of a few tokens and to the texts the          *)
(* validator's tests use                                                   *)

\* all concatenations of at most n tokens
RECURSIVE Compositions(_, _)
Compositions(tokens, n) ==
    IF n = 0 THEN {<<>>}
    ELSE LET shorter == Compositions(tokens, n - 1)
         IN  shorter \cup {t \o x : t \in tokens, x \in shorter}

\* tokens of SQL text: an allowed start keyword, two deny-listed keywords
\* (lower and mixed case), a word character, the newline (a blank), the
\* statement separator and the comment markers
QueryTokens ==
    {<<"S","e","l","e","c","t">>, <<"i","n","s","e","r","t">>, <<"U","p","d","a","t","e">>,
     <<"_">>, <<"\n">>, <<";">>, <<"-","-">>, <<"/","*">>, <<"*","/">>}

X_select_star == <<"S","E","L","E","C","T"," ","*"," ","F","R","O","M"," ","u","s","e","r","s">>
X_updated_users == <<"S","E","L","E","C","T"," ","*"," ","F","R","O","M"," ","u","p","d","a","t","e","d","_","u","s","e","r","s">>
X_separator_drop == <<"S","E","L","E","C","T"," ","*"," ","F","R","O","M"," ","u","s","e","r","s",";"," ","D","R","O","P"," ","T","A","B","L","E"," ","u","s","e","r","s">>
X_line_comment == <<"S","E","L","E","C","T"," ","*"," ","F","R","O","M"," ","u","s","e","r","s"," ","-","-"," ","c","o","m","m","e","n","t">>
X_block_comment == <<"S","E","L","E","C","T"," ","*"," ","F","R","O","M"," ","u","s","e","r","s"," ","/","*"," ","c","o","m","m","e","n","t"," ","*","/">>
X_call == <<"C","A","L","L"," ","s","o","m","e","_","p","r","o","c","e","d","u","r","e","(",")">>
X_exec == <<"S","E","L","E","C","T"," ","e","x","e","c"," ","(","1",")">>
X_two_keywords == <<"D","R","O","P"," ","I","N","S","E","R","T">>
X_multiline == <<"S","E","L","E","C","T"," ","1"," ","/","*"," ","a","\n","b"," ","*","/">>
X_separator_word == <<"S","E","L","E","C","T"," ","1",";","\n"," ","d","r","o","p","p","e","d">>
X_xp == <<"S","E","L","E","C","T"," ","x","p","_","c","m","d","s","h","e","l","l">>

\* texts with a vertical tab, which TrimSpace strips and \s does not match
X_vtab == <<VT>> \o K_SELECT \o <<" ", "1", VT>>
X_vtab_blank == <<VT, " ", VT>>

\* a text one character over the configured maximum that holds a write keyword
X_long_drop == K_DROP \o <<" ">> \o [i \in 1..(MaxQueryLength - 4) |-> "x"]

\* "SELECT " followed by each deny-listed keyword, and each keyword alone
X_write == {K_SELECT \o <<" ">> \o writeKeywords[i] : i \in DOMAIN writeKeywords}
               \cup {writeKeywords[i] : i \in DOMAIN writeKeywords}

QueryInputs ==
    Compositions(QueryTokens, MaxTokens) \cup X_write
    \cup {X_select_star, X_updated_users, X_separator_drop, X_line_comment,
          X_block_comment, X_multiline, X_separator_word, X_call, X_exec, X_xp,
          X_two_keywords, X_long_drop, T_long, X_vtab, X_vtab_blank}

\* tokens of identifiers: a plain name, the three names of the dangerous
\* list in different letter cases, and single characters inside and outside
\* the valid pattern
NameTokens ==
    {<<"u","s","e","r","s">>, <<"D","r","o","p">>, <<"d","e","l","e","t","e">>, <<"U","P","D","A","T","E">>,
     <<"_">>, <<".">>, <<Backtick>>, <<" ">>}

N_quoted == <<"\"","u","s","e","r","s","\"">>
N_separator == <<"a",";","b">>
N_comment == <<"a","-","-">>
N_updated_users == <<"u","p","d","a","t","e","d","_","u","s","e","r","s">>

NameInputs ==
    Compositions(NameTokens, MaxTokens)
    \cup {N_users, N_qual, N_updated, N_space, N_quoted, N_separator, N_comment,
          N_updated_users}

\* a caller applies Validator.ValidateReadOnlyQuery to a text
ValidateQuery ==
    /\ pc = "read"
    /\ \E q \in QueryInputs :
        gateChecks' = <<GateCheck("ValidateReadOnlyQuery", q, ValidateReadOnlyQuery(q))>>
    /\ pc' = "checked"
    /\ UNCHANGED <<cur, resp, adapterCalls, toolCalled, nread, stdout, cancelled, maxRows, hvars>>

\* a caller applies SanitizeTableName to a name
SanitizeName ==
    /\ pc = "read"
    /\ \E n \in NameInputs :
        gateChecks' = <<GateCheck("SanitizeTableName", n, SanitizeTableName(n))>>
    /\ pc' = "checked"
    /\ UNCHANGED <<cur, resp, adapterCalls, toolCalled, nread, stdout, cancelled, maxRows, hvars>>

\* the validator has returned its verdict to the caller
GateReturn ==
    /\ pc = "checked"
    /\ pc' = "read"
    /\ gateChecks' = <<>>
    /\ UNCHANGED <<cur, resp, adapterCalls, toolCalled, nread, stdout, cancelled, maxRows, hvars>>

NextG == ValidateQuery \/ SanitizeName \/ GateReturn

SpecGate == Init /\ [][NextG]_vars

----------------------------------------------------------------------------
(* Shutdown of the concurrent transport under fair scheduling: every       *)
(* goroutine that can take a step eventually takes one, and every timer    *)
(* that was started eventually fires                                       *)

\* the inbound calls of the shutdown scenario
ShutdownCallers == {1, 2}

\* the Run goroutine
RunStep ==
    \/ HTTPReadRequest \/ HTTPStoreSlot \/ HTTPReadClosed \/ LogReadError
    \/ Initialize \/ Initialized
    \/ HTTPWriteResponse \/ HTTPSend

NextD ==
    \/ \E c \in ShutdownCallers :
        \/ Arrive(c) \/ Enqueue(c) \/ EnqueueTimeout(c) \/ Receive(c) \/ Cleanup(c)
        \/ WaitTimeout(c) \/ TimeoutCleanup(c)
    \/ RunStep
    \/ Close \/ Shutdown \/ CloseReturn \/ RouteResponses \/ Crash

\* the two selects of handleMCPRequest complete, by a ready channel
\* operation or by their timer; runnable goroutines run
FairD ==
    /\ \A c \in ShutdownCallers :
        /\ WF_vars(Enqueue(c) \/ EnqueueTimeout(c))
        /\ WF_vars(Receive(c) \/ WaitTimeout(c))
        /\ WF_vars(Cleanup(c))
        /\ WF_vars(TimeoutCleanup(c))
    /\ WF_vars(RunStep)
    /\ WF_vars(RouteResponses)

SpecShutdown == InitH /\ [][NextD]_vars /\ FairD

----------------------------------------------------------------------------
(* Contexts and deadlines: the context main gives to Server.Run, the       *)
(* context each handler gives to the adapter, and adapter operations that  *)
(* may never finish by themselves, with Server.Run over HTTPTransport      *)

\* context.Background()
Background == [deadline |-> FALSE, cancelled |-> FALSE]
\* the context of main: context.WithCancel(context.Background())
RunContext == [deadline |-> FALSE, cancelled |-> cancelled]
\* context.WithTimeout(ctx, 30*time.Second)
WithTimeout(ctx) == [ctx EXCEPT !.deadline = TRUE]

AdapterContext_NoDeadline(req, ctx) == ctx

\* the context the handler of req passes to the adapter: the tool handlers
\* derive it from the context of Run, handlePing does not
AdapterContext(req, ctx) ==
    IF req.method = "ping" THEN Background ELSE WithTimeout(ctx)

\* what the data store does when left alone: an outcome, or no answer at all
AdapterBehaviours == AdapterOutcomes \cup {[out |-> "stall", n |-> 0, encodes |-> TRUE]}

\* the adapter operation returns: database/sql gives up when the context is
\* done, and waits for the data store otherwise
Returns(actx, b) == b.out # "stall" \/ actx.deadline \/ actx.cancelled

\* what the adapter operation returns under the context actx
Outcome(actx, b) ==
    IF actx.cancelled THEN [out |-> "canceled", n |-> 0, encodes |-> TRUE]
    ELSE IF b.out = "stall" THEN [out |-> "deadline", n |-> 0, encodes |-> TRUE]
    ELSE b

\* resp := s.handleRequest(ctx, req) with an adapter that may not answer
DispatchUnder(methods) ==
    /\ pc = "handle"
    /\ cur.method \in methods
    /\ \E b \in AdapterBehaviours :
        LET actx == AdapterContext(cur, RunContext)
            h == handleRequest(cur, Outcome(actx, b))
            stuck == handleRequest(cur, b)
        IN  IF stuck.calls # <<>> /\ ~Returns(actx, b)
            THEN /\ pc' = "blocked"
                 /\ adapterCalls' = stuck.calls
                 /\ toolCalled' = stuck.handler
                 /\ gateChecks' = stuck.checks
                 /\ UNCHANGED resp
            ELSE /\ pc' = "write"
                 /\ resp' = h.resp
                 /\ adapterCalls' = h.calls
                 /\ toolCalled' = h.handler
                 /\ gateChecks' = h.checks
    /\ UNCHANGED <<cur, nread, stdout, cancelled, maxRows, hvars>>

ToolsCallUnder == DispatchUnder({"tools/call"})
PingUnder == DispatchUnder({"ping"})

\* the inbound calls and the envelopes they post
LifecycleCallers == {1, 2}
LifecycleRequests ==
    {Request(NumId("1"), "tools/call", Params("list_tables", NoArgs)),
     Request(NumId("2"), "tools/call", Params("describe_table",
                                              Args(StrArg(N_users), Missing))),
     Request(NumId("3"), "tools/call", Params("execute_readonly_query",
                                              Args(Missing, StrArg(T_select1)))),
     Request(NumId("4"), "tools/call", Params("explain_query",
                                              Args(Missing, StrArg(T_select1)))),
     Request(NumId("5"), "ping", NoParams)}

\* handleMCPRequest up to the select that sends on requestChan, for a
\* well-formed POST with one of the bodies; the HTTP server accepts calls
\* until Shutdown
PostOf(c, bodies) ==
    /\ Alive
    /\ Listening
    /\ callers[c].pc = "new"
    /\ \A d \in Callers : d < c => callers[d].pc # "new"
    /\ \E body \in bodies :
        callers' = [callers EXCEPT ![c].pc = "enqueue", ![c].httpMethod = "POST", ![c].req = body]
    /\ respChans' = [respChans EXCEPT ![c] = EmptyChan]
    /\ UNCHANGED <<dvars, svars, cancelled, maxRows, httpReq, closePc, requestChan, responseChan, sendTo, ctxDone, routed, apiKey,
                   corsOrigins, everQueued>>

Post(c) == PostOf(c, LifecycleRequests)

\* the signal goroutine of main: cancel()
Cancel ==
    /\ Alive
    /\ ~cancelled
    /\ cancelled' = TRUE
    /\ UNCHANGED <<dvars, svars, hvars, maxRows>>

NextL ==
    \/ \E c \in LifecycleCallers :
        \/ Post(c) \/ Enqueue(c) \/ EnqueueTimeout(c) \/ Receive(c) \/ Cleanup(c)
        \/ WaitTimeout(c) \/ TimeoutCleanup(c)
    \/ HTTPReadRequest \/ HTTPStoreSlot
    \/ ToolsCallUnder \/ PingUnder
    \/ HTTPWriteResponse \/ HTTPSend
    \/ Cancel

SpecLifecycle == Init /\ [][NextL]_vars

----------------------------------------------------------------------------
(* Startup: Server.Run from its first statement, over StdioTransport: the  *)
(* adapter connects, the transport starts, then the message loop runs      *)

Connect_IgnoresError ==
    /\ pc = "connect"
    /\ \E out \in {"ok", "err"} :
        /\ adapterCalls' = <<AdapterCall("Connect", <<>>, out, 0)>>
        /\ pc' = "start"
    /\ UNCHANGED <<cur, resp, toolCalled, gateChecks, nread, stdout, cancelled, maxRows, hvars>>

\* s.adapter.Connect(ctx): on an error Run returns it, wrapped
Connect ==
    /\ pc = "connect"
    /\ \E out \in {"ok", "err"} :
        /\ adapterCalls' = <<AdapterCall("Connect", <<>>, out, 0)>>
        /\ pc' = IF out = "ok" THEN "start" ELSE "failed"
    /\ UNCHANGED <<cur, resp, toolCalled, gateChecks, nread, stdout, cancelled, maxRows, hvars>>

\* s.transport.Start(ctx): StdioTransport.Start returns nil
StartTransport ==
    /\ pc = "start"
    /\ pc' = "read"
    /\ UNCHANGED <<cur, resp, adapterCalls, toolCalled, gateChecks, nread, stdout, cancelled, maxRows, hvars>>

InitU ==
    /\ pc = "connect"
    /\ cur = NoReq /\ resp = NilResp /\ adapterCalls = <<>> /\ toolCalled = ""
    /\ gateChecks = <<>> /\ nread = 0 /\ cancelled = FALSE /\ maxRows = MaxRowsCfg
    /\ InitStdio /\ InitHTTP /\ apiKey = "" /\ corsOrigins = DefaultOrigins

NextU ==
    \/ Connect \/ StartTransport
    \/ StdioReadRequest \/ StdioReadMalformed \/ StdioReadEOF \/ LogReadError
    \/ Initialize \/ Initialized \/ ToolsList \/ ToolsCall \/ Ping \/ MethodNotFound
    \/ StdioWriteResponse

SpecStartup == InitU /\ [][NextU]_vars

----------------------------------------------------------------------------
(* The result text of execute_readonly_query under every row cap: the      *)
(* server is built with any MAX_ROWS from 0 up, rowsToResult reports a row *)
(* count up to the cap, and handleExecuteQuery formats the text            *)

\* a tools/call of execute_readonly_query reaches handleRequest
AcceptQuery ==
    /\ pc = "read"
    /\ cur' = Request(NumId("1"), "tools/call",
                      Params("execute_readonly_query", Args(Missing, StrArg(T_select1))))
    /\ resp' = NilResp
    /\ adapterCalls' = <<>>
    /\ toolCalled' = ""
    /\ gateChecks' = <<>>
    /\ pc' = "handle"
    /\ UNCHANGED <<nread, stdout, cancelled, maxRows, hvars>>

InitR ==
    /\ pc = "read"
    /\ cur = NoReq /\ resp = NilResp /\ adapterCalls = <<>> /\ toolCalled = ""
    /\ gateChecks = <<>> /\ nread = 0 /\ cancelled = FALSE
    /\ maxRows \in 0..MaxCap
    /\ InitStdio /\ InitHTTP /\ apiKey = "" /\ corsOrigins = DefaultOrigins

NextR == AcceptQuery \/ ToolsCall \/ Return

SpecResult == InitR /\ [][NextR]_vars

----------------------------------------------------------------------------
(* Correlation under colliding ids: Server.Run over HTTPTransport with     *)
(* calls whose ids give the same key (1 and "1", or no id) while their     *)
(* requests differ                                                         *)

CorrelateCallers == {1, 2}
CollidingRequests ==
    {Request(NumId("1"), "initialize", NoParams),
     Request(StrId("1"), "tools/list", NoParams),
     Request(NoId, "initialize", NoParams),
     Request(NoId, "tools/list", NoParams)}

PostColliding(c) == PostOf(c, CollidingRequests)

NextC ==
    \/ \E c \in CorrelateCallers :
        \/ PostColliding(c) \/ Enqueue(c) \/ EnqueueTimeout(c) \/ Receive(c) \/ Cleanup(c)
        \/ WaitTimeout(c) \/ TimeoutCleanup(c)
    \/ HTTPReadRequest \/ HTTPStoreSlot
    \/ Initialize \/ ToolsList
    \/ HTTPWriteResponse \/ HTTPSend

SpecCorrelate == Init /\ [][NextC]_vars

----------------------------------------------------------------------------
(* Properties of the dispatcher and the tool handlers (checked under Spec) *)

\* handleRequest has returned for cur
Dispatched == pc = "write"

IsToolsCall == cur.method = "tools/call" /\ cur.params.decodable
RegisteredTool == IsToolsCall /\ cur.params.name \in DOMAIN tools

\* the envelope is a tool failure: no error object, isError set and one text
\* block holding text
IsToolError(r, text) ==
    /\ r # NilResp
    /\ r.error = NoError
    /\ r.result = CallToolResult(<<TextContent(text)>>, TRUE)

\* C1: the adapter's ExecuteQuery and ExplainQuery are only invoked with the
\* query argument of the request, after ValidateReadOnlyQuery accepted that
\* same text, and DescribeTable only with the table_name argument, after
\* SanitizeTableName accepted it; a request whose argument the gate rejects
\* makes no adapter call and is answered with the rejection reason.
C1_GateBeforeAdapter ==
    Dispatched /\ cur.method = "tools/call" =>
        /\ \A i \in DOMAIN adapterCalls :
            LET c == adapterCalls[i]
            IN  /\ c.op \in {"ExecuteQuery", "ExplainQuery"} =>
                    /\ cur.params.args.query = StrArg(c.arg)
                    /\ ValidateReadOnlyQuery(c.arg) = ALLOW
                    /\ gateChecks = <<GateCheck("ValidateReadOnlyQuery", c.arg, ALLOW)>>
                /\ c.op = "DescribeTable" =>
                    /\ cur.params.args.table_name = StrArg(c.arg)
                    /\ SanitizeTableName(c.arg) = ALLOW
                    /\ gateChecks = <<GateCheck("SanitizeTableName", c.arg, ALLOW)>>
        /\ (/\ RegisteredTool
            /\ cur.params.name \in {"execute_readonly_query", "explain_query"}
            /\ cur.params.args.query.t = "string"
            /\ cur.params.args.query.s # <<>>
            /\ ValidateReadOnlyQuery(cur.params.args.query.s) # ALLOW)
           => /\ adapterCalls = <<>>
              /\ IsToolError(resp, "Error: query validation failed: "
                                       \o ValidateReadOnlyQuery(cur.params.args.query.s))
        /\ (/\ RegisteredTool
            /\ cur.params.name = "describe_table"
            /\ cur.params.args.table_name.t = "string"
            /\ cur.params.args.table_name.s # <<>>
            /\ SanitizeTableName(cur.params.args.table_name.s) # ALLOW)
           => /\ adapterCalls = <<>>
              /\ IsToolError(resp, "Error: invalid table name: "
                                       \o SanitizeTableName(cur.params.args.table_name.s))

\* an accepted query has reached the adapter's ExecuteQuery
C1_Witness ==
    /\ Dispatched
    /\ \E i \in DOMAIN adapterCalls :
        adapterCalls[i].op = "ExecuteQuery" /\ adapterCalls[i].arg = T_updated

\* C5: a request without an id never produces a response: handleRequest
\* returns no envelope for it.
C5_NotificationNoResponse == Dispatched /\ cur.id = NoId => resp = NilResp

\* C6: every envelope the dispatcher produces has exactly one of result and
\* error set.
C6_ResultXorError ==
    Dispatched /\ resp # NilResp =>
        /\ resp.result # NoResult \/ resp.error.set
        /\ ~(resp.result # NoResult /\ resp.error.set)

\* an envelope with a result (a tool failure) has been produced
C6_Witness ==
    /\ Dispatched
    /\ RegisteredTool
    /\ resp # NilResp
    /\ resp.result # NoResult
    /\ resp.result.isError

\* the ways a registered tool's handler fails
BadArgument ==
    \/ /\ cur.params.name = "describe_table"
       /\ (cur.params.args.table_name.t # "string" \/ cur.params.args.table_name.s = <<>>)
    \/ /\ cur.params.name \in {"execute_readonly_query", "explain_query"}
       /\ (cur.params.args.query.t # "string" \/ cur.params.args.query.s = <<>>)
GateRejection == \E j \in DOMAIN gateChecks : gateChecks[j].verdict # ALLOW
AdapterFailure == \E i \in DOMAIN adapterCalls : adapterCalls[i].out = "err"

FailureTexts ==
    {"Error: table_name is required and must be a string",
     "Error: query is required and must be a string"}
    \cup {"Error: " \o p \o gateChecks[j].verdict :
            p \in {"invalid table name: ", "query validation failed: "},
            j \in DOMAIN gateChecks}
    \cup {"Error: " \o p \o AdapterErr :
            p \in {"failed to list tables: ", "failed to describe table: ",
                   "failed to execute query: ", "failed to explain query: "}}

\* C7: for a tools/call naming a registered tool, every failure of the tool
\* handler (bad argument, gate rejection, adapter failure) is answered with a
\* successful envelope whose result has isError = TRUE and one text block
\* carrying the reason; the error field is not used, whatever the handler
\* returned (a result that cannot be formatted included).
C7_ToolFailureIsResult ==
    /\ Dispatched /\ RegisteredTool /\ (BadArgument \/ GateRejection \/ AdapterFailure) =>
        /\ resp # NilResp
        /\ resp.id = cur.id
        /\ resp.error = NoError
        /\ \E text \in FailureTexts : IsToolError(resp, text)
    /\ Dispatched /\ RegisteredTool =>
        /\ resp # NilResp
        /\ resp.error = NoError
        /\ resp.result # NoResult
        /\ resp.result.isError =>
            \E text \in FailureTexts \cup {"Error: failed to format result: " \o EncodeErr} :
                IsToolError(resp, text)

\* the adapter failed under a registered tool and the failure was answered
C7_Witness ==
    /\ Dispatched
    /\ RegisteredTool
    /\ AdapterFailure
    /\ cur.params.name = "execute_readonly_query"

\* C9: a ping with id X is answered with id X and result {status: ok} when
\* the adapter's liveness check succeeds, and with id X and error code -32603
\* carrying the failure detail when it fails.
C9_Ping ==
    Dispatched /\ cur.method = "ping" /\ cur.id # NoId =>
        /\ adapterCalls # <<>>
        /\ adapterCalls[1].op = "Ping"
        /\ resp # NilResp
        /\ resp.id = cur.id
        /\ adapterCalls[1].out = "ok" =>
            /\ resp.result = [kind |-> "status", status |-> "ok"]
            /\ resp.error = NoError
        /\ adapterCalls[1].out = "err" =>
            /\ resp.result = NoResult
            /\ resp.error.set
            /\ resp.error.code = -32603
            /\ resp.error.data = AdapterErr

\* a ping with an id met a failing liveness check
C9_Witness ==
    /\ Dispatched
    /\ cur.method = "ping"
    /\ cur.id = NumId("1")
    /\ adapterCalls # <<>>
    /\ adapterCalls[1].out = "err"

\* C10: a tools/call whose tool name is not in the registry is answered with
\* an error envelope of code -32602 whose message names the tool, and neither
\* a tool handler nor an adapter operation is invoked.
C10_UnknownTool ==
    Dispatched /\ IsToolsCall /\ cur.params.name \notin DOMAIN tools =>
        /\ resp # NilResp
        /\ resp.id = cur.id
        /\ resp.result = NoResult
        /\ resp.error = ErrorObj(-32602, "Unknown tool: " \o cur.params.name, "")
        /\ toolCalled = ""
        /\ adapterCalls = <<>>
        /\ gateChecks = <<>>

\* a tools/call naming no_such_tool has been dispatched
C10_Witness ==
    /\ Dispatched
    /\ IsToolsCall
    /\ cur.params.name = "no_such_tool"

----------------------------------------------------------------------------
(* Properties of Server.Run over the STDIO transport (checked under SpecStdio) *)

\* C2: every request that carries an id and is read by Server.Run yields
\* one response with the same id, whatever its method: when Run writes for
\* such a request and the writer does not fail, the line written is a
\* response with the request's id.
C2_RequestWithIdAnswered ==
    [][pc = "write" /\ cur.id # NoId /\ stdout' = Append(stdout, Marshal(resp)) =>
           /\ "id" \in DOMAIN stdout'[Len(stdout')]
           /\ stdout'[Len(stdout')].id = cur.id]_vars

\* C8: dispatching the initialized notification writes nothing to the
\* transport's output, and the loop of Run goes on to the next request.
C8_InitializedWritesNothing ==
    [][pc = "write" /\ cur.method = "initialized" => stdout' = stdout /\ pc' = "read"]_vars

----------------------------------------------------------------------------
(* Properties of the HTTP transport                                        *)

\* the inbound call c has been handled far enough to hold a decoded request
Posted(c) == callers[c].req # NoReq

\* C3: two concurrent calls with distinct ids each receive only their own
\* correlated response: whatever a call receives from its channel is an
\* envelope with its own request id, never the id of the other call.
C3_OwnResponseOnly ==
    \A a \in Callers : \A b \in Callers \ {a} :
        Posted(a) /\ Posted(b) /\ callers[a].req.id # callers[b].req.id =>
            /\ callers[a].got # NilResp => callers[a].got.id = callers[a].req.id
            /\ respChans[a].msg # NilResp => respChans[a].msg.id = callers[a].req.id

\* two calls with distinct ids have both received a response
C3_Witness ==
    \E a \in Callers : \E b \in Callers \ {a} :
        /\ callers[a].req.id # callers[b].req.id
        /\ callers[a].status = 200 /\ callers[a].got # NilResp
        /\ callers[b].status = 200 /\ callers[b].got # NilResp

\* the call c came without the configured secret in its X-API-Key header
BadKey(c) == callers[c].pc # "new" /\ apiKey # "" /\ callers[c].key # apiKey

\* C4 as stated: with a secret configured, any call whose X-API-Key is
\* missing or different is answered 401 and never reaches the queue.
C4_AnyCallUnauthorized ==
    \A c \in Callers : BadKey(c) => callers[c].status = 401 /\ c \notin everQueued

\* C4 amended: with a secret configured, a POST whose X-API-Key is missing or
\* different is answered 401, and no call of any HTTP method with such a key
\* reaches the queue.
C4_PostUnauthorized ==
    \A c \in Callers : BadKey(c) =>
        /\ callers[c].pc = "done"
        /\ callers[c].httpMethod = "POST" => callers[c].status = 401
        /\ c \notin everQueued
        /\ \A i \in DOMAIN requestChan : requestChan[i] # c
        /\ respChans[c] = NoChan

\* a POST with a wrong key has been answered 401
C4_Witness ==
    \E c \in Callers :
        /\ BadKey(c)
        /\ callers[c].httpMethod = "POST"
        /\ callers[c].key = "wrong-key"
        /\ callers[c].status = 401

----------------------------------------------------------------------------
(* Decode failures and routing (C11 under SpecStdio, C12 under Spec) *)

\* cur is a tools/call whose params do not decode into {name, arguments}
UndecodableCall == cur.method = "tools/call" /\ ~cur.params.decodable

\* C11: a tools/call whose params cannot be decoded into {name, arguments} is
\* answered with an error envelope of code -32602 carrying the request's id,
\* without any tool handler or adapter call; Run hands that envelope to
\* WriteResponse, which writes it unless the writer fails, and goes back to
\* reading the next request instead of crashing.
C11_UndecodableParams ==
    [][/\ (pc = "handle" /\ UndecodableCall =>
                /\ pc' = "write"
                /\ resp' # NilResp
                /\ resp'.id = cur.id
                /\ resp'.result = NoResult
                /\ resp'.error.set
                /\ resp'.error.code = -32602
                /\ toolCalled' = ""
                /\ adapterCalls' = <<>>)
       /\ (pc = "write" /\ UndecodableCall =>
                /\ stdout' \in {WriteLine(stdout, resp, outcome) : outcome \in WriteOutcomes}
                /\ pc' = "read")]_vars

\* an undecodable tools/call was answered -32602 and the next request was
\* served after it
C11_Witness ==
    /\ Len(stdout) = 2
    /\ stdout[1] = InvalidParams(Request(NumId("2"), "tools/call", Undecodable))
    /\ "id" \in DOMAIN stdout[2]
    /\ pc = "read"

\* the behaviour a dispatch showed, read off what it returned and invoked
Behaviour ==
    IF resp = NilResp THEN "initialized"
    ELSE IF resp.result.kind = "InitializeResult" THEN "initialize"
    ELSE IF resp.result.kind = "ListToolsResult" THEN "tools/list"
    ELSE IF adapterCalls # <<>> /\ adapterCalls[1].op = "Ping" THEN "ping"
    ELSE IF resp.error.set /\ resp.error.code = -32601 THEN "method not found"
    ELSE "tools/call"

\* C12: a request is routed to exactly one behaviour, chosen by its method
\* name, and every method name outside initialize, initialized, tools/list,
\* tools/call and ping is answered with an error envelope of code -32601
\* carrying the request's id, with no tool handler, gate check or adapter
\* operation invoked.
C12_Routing ==
    Dispatched =>
        /\ cur.method \in KnownMethods => Behaviour = cur.method
        /\ cur.method \notin KnownMethods =>
            /\ Behaviour = "method not found"
            /\ resp = Response(cur.id, NoResult,
                               ErrorObj(-32601, "Method not found: " \o cur.method, ""))
            /\ toolCalled = ""
            /\ adapterCalls = <<>>
            /\ gateChecks = <<>>

\* a request whose method differs from ping only by letter case was answered
\* method not found
C12_Witness ==
    /\ Dispatched
    /\ cur.method = "PING"
    /\ cur.id = NumId("1")
    /\ resp # NilResp
    /\ resp.error.code = -32601

----------------------------------------------------------------------------
(* Properties of the Security Gate (checked under SpecGate) *)

\* ValidateReadOnlyQuery / SanitizeTableName has returned its verdict
QueryChecked == pc = "checked" /\ gateChecks[1].check = "ValidateReadOnlyQuery"
NameChecked == pc = "checked" /\ gateChecks[1].check = "SanitizeTableName"
CheckedText == gateChecks[1].arg
Verdict == gateChecks[1].verdict

\* the deny list as the specification gives it, in its order
DenyListed == <<K_INSERT, K_UPDATE, K_DELETE, K_DROP, K_CREATE, K_ALTER,
                K_TRUNCATE, K_REPLACE, K_MERGE, K_GRANT, K_REVOKE>>

\* kw occurs in q at position i in some letter case, with no letter, digit or
\* underscore next to it
WholeWordAt(q, i, kw) ==
    /\ i + Len(kw) - 1 <= Len(q)
    /\ ToUpper(SubSeq(q, i, i + Len(kw) - 1)) = kw
    /\ (i = 1 \/ ~IsWordChar(q[i - 1]))
    /\ (i + Len(kw) > Len(q) \/ ~IsWordChar(q[i + Len(kw)]))
HasWholeWord(q, kw) == \E i \in DOMAIN q : WholeWordAt(q, i, kw)

\* the deny-listed keywords that occur in q as whole words (indices of the list)
DenyHits(q) == {i \in DOMAIN DenyListed : HasWholeWord(q, DenyListed[i])}

WriteReason(kw) == "write operation detected: " \o Str(kw) \o " is not allowed"
LengthReason == "query exceeds maximum length of " \o ToString(MaxQueryLength) \o " characters"

\* C13 as stated: every text that contains a deny-listed keyword at a word
\* boundary, in any letter case, is rejected with a reason that names a
\* deny-listed keyword the text contains.
C13_DenyListedNamed ==
    QueryChecked /\ DenyHits(CheckedText) # {} =>
        Verdict \in {WriteReason(DenyListed[i]) : i \in DenyHits(CheckedText)}

\* C13 amended: every text that contains a deny-listed keyword at a word
\* boundary, in any letter case, is rejected; when the text is no longer than
\* the configured maximum the reason names the first keyword of the deny
\* list, in list order, that the text contains as a whole word, and when it
\* is longer the reason is its length.
C13_DenyListedRejected ==
    QueryChecked /\ DenyHits(CheckedText) # {} =>
        LET first == CHOOSE i \in DenyHits(CheckedText) :
                         \A j \in DenyHits(CheckedText) : i <= j
        IN  /\ Verdict # ALLOW
            /\ Len(CheckedText) <= MaxQueryLength => Verdict = WriteReason(DenyListed[first])
            /\ Len(CheckedText) > MaxQueryLength => Verdict = LengthReason

\* a text holding insert in lower case and Update in mixed case was
\* rejected, naming INSERT
C13_Witness ==
    /\ QueryChecked
    /\ Len(CheckedText) <= MaxQueryLength
    /\ DenyHits(CheckedText) = {1, 2}
    /\ CheckedText # ToUpper(CheckedText)
    /\ Verdict = WriteReason(K_INSERT)

\* the start keywords as the specification gives them
StartKeywords == {K_SELECT, K_EXPLAIN, K_DESCRIBE, K_SHOW, K_WITH}

\* q, trimmed and upper-cased, starts with one of the start keywords
StartsAllowed(q) == \E kw \in StartKeywords : HasPrefix(ToUpper(TrimSpace(q)), kw)

StartReason == "query must start with SELECT, EXPLAIN, DESCRIBE, SHOW, or WITH"

\* C14: every text that, after trimming and upper-casing, does not start
\* with SELECT, EXPLAIN, DESCRIBE, SHOW or WITH is rejected by the query
\* check.
C14_StartKeywordRequired ==
    QueryChecked /\ ~StartsAllowed(CheckedText) => Verdict # ALLOW

\* a text that fails no other test was rejected for its start
C14_Witness ==
    /\ QueryChecked
    /\ CheckedText = X_call
    /\ ~StartsAllowed(CheckedText)
    /\ Verdict = StartReason

\* some deny-listed keyword occurs in q, in some letter case, as part of a
\* longer word
EmbeddedKeyword(q) ==
    \E i \in DOMAIN DenyListed : \E j \in DOMAIN q :
        /\ MatchAt(ToUpper(q), j, DenyListed[i])
        /\ ~WholeWordAt(q, j, DenyListed[i])

\* q holds none of the characters the dangerous patterns are made of
NoPatternCharacters(q) == \A j \in DOMAIN q : q[j] \notin {";", "-", "/", "*", "("}

\* C15: the deny-list match is whole-word only. A text in which deny-listed
\* keywords occur only as parts of longer words (a letter, digit or underscore
\* adjacent) is never rejected as a write operation, and it is accepted when
\* it passes the other tests; "SELECT * FROM updated_users" is accepted.
C15_WholeWordOnly ==
    QueryChecked /\ DenyHits(CheckedText) = {} =>
        /\ \A i \in DOMAIN DenyListed : Verdict # WriteReason(DenyListed[i])
        /\ (/\ EmbeddedKeyword(CheckedText)
            /\ Len(CheckedText) <= MaxQueryLength
            /\ StartsAllowed(CheckedText)
            /\ NoPatternCharacters(CheckedText)) => Verdict = ALLOW
        /\ CheckedText = X_updated_users => Verdict = ALLOW

\* "SELECT * FROM updated_users" was checked and accepted
C15_Witness ==
    /\ QueryChecked
    /\ CheckedText = X_updated_users
    /\ EmbeddedKeyword(CheckedText)
    /\ Verdict = ALLOW

\* a statement separator, optional blanks, then a deny-listed keyword as a
\* whole word, in any letter case
SeparatorThenWrite(q) ==
    \E i \in DOMAIN q : \E j \in (i + 1)..Len(q) :
        /\ q[i] = ";"
        /\ \A k \in (i + 1)..(j - 1) : IsReSpace(q[k])
        /\ \E n \in DOMAIN DenyListed : WholeWordAt(q, j, DenyListed[n])

\* an opening block comment marker with a closing one after it, whatever
\* lies between them (newlines included)
BlockCommentMarkers(q) ==
    \E i \in DOMAIN q : \E j \in (i + 2)..Len(q) :
        MatchAt(q, i, <<"/", "*">>) /\ MatchAt(q, j, <<"*", "/">>)

\* C16: every text that contains a statement separator followed by a write
\* keyword, a line comment marker, or block comment markers (on one line or
\* spread over several lines) is rejected by the query check; in particular
\* "SELECT * FROM users; DROP TABLE users" is rejected.
C16_DangerousPatternsRejected ==
    QueryChecked =>
        /\ (\/ SeparatorThenWrite(CheckedText)
            \/ Contains(CheckedText, <<"-", "-">>)
            \/ BlockCommentMarkers(CheckedText)) => Verdict # ALLOW
        /\ CheckedText = X_separator_drop => Verdict # ALLOW

EmptyReason == "query cannot be empty"
PatternReason == "potentially dangerous SQL pattern detected"

\* the five tests, each on its own
TooLong(q) == Len(q) > MaxQueryLength
EmptyAfterTrim(q) == \A i \in DOMAIN q : IsSpace(q[i])
HoldsWriteKeyword(q) == DenyHits(q) # {}
BadStart(q) == ~StartsAllowed(q)
DangerousPattern(q) == sqlInjectionPatterns(q)

\* the reason of the first test that fails, in the order length, emptiness,
\* deny-listed keyword, start keyword, dangerous pattern
FirstFailure(q) ==
    IF TooLong(q) THEN LengthReason
    ELSE IF EmptyAfterTrim(q) THEN EmptyReason
    ELSE IF HoldsWriteKeyword(q)
    THEN WriteReason(DenyListed[CHOOSE i \in DenyHits(q) : \A j \in DenyHits(q) : i <= j])
    ELSE IF BadStart(q) THEN StartReason
    ELSE IF DangerousPattern(q) THEN PatternReason
    ELSE ALLOW

\* C17: the query check evaluates its five tests in the order length,
\* emptiness after trimming, deny-listed keyword, allowed start keyword,
\* dangerous pattern, and the reason it returns is that of the first test
\* that fails; a text that fails none is accepted.
C17_FirstFailureWins == QueryChecked => Verdict = FirstFailure(CheckedText)

\* an over-long text that also holds a write keyword was rejected for its
\* length
C17_Witness ==
    /\ QueryChecked
    /\ CheckedText = X_long_drop
    /\ TooLong(CheckedText)
    /\ HoldsWriteKeyword(CheckedText)
    /\ Verdict = LengthReason

\* the characters the specification allows in an identifier
IdentifierChars ==
    Range(LowerLetters) \cup Range(UpperLetters) \cup Digits \cup {"_", ".", Backtick, "\""}

\* n holds DROP, DELETE or UPDATE as a substring, in any letter case
HoldsDangerousWord(n) == \E d \in {K_DROP, K_DELETE, K_UPDATE} : Contains(ToUpper(n), d)

\* C18: the identifier check rejects the empty name, every name holding a
\* character outside letters, digits, underscore, dot, backtick and double
\* quote, and every name holding DROP, DELETE or UPDATE as a substring in
\* any letter case (so updated_users is rejected); every other name is
\* accepted.
C18_IdentifierCheck ==
    NameChecked =>
        /\ (Verdict # ALLOW <=>
                \/ CheckedText = <<>>
                \/ \E i \in DOMAIN CheckedText : CheckedText[i] \notin IdentifierChars
                \/ HoldsDangerousWord(CheckedText))
        /\ CheckedText = N_updated_users => Verdict # ALLOW

\* updated_users, made of allowed characters only, was rejected
C18_Witness ==
    /\ NameChecked
    /\ CheckedText = N_updated_users
    /\ \A i \in DOMAIN CheckedText : CheckedText[i] \in IdentifierChars
    /\ Verdict = "potentially dangerous table name: updated_users"

----------------------------------------------------------------------------
(* Properties of the RPC endpoint (checked under SpecEndpoint) *)

\* handleMCPRequest has started for the inbound call c
Arrived(c) == callers[c].pc # "new"

\* nothing of the call c has reached the dispatcher: no request was put on
\* the queue, no response channel was made and no slot is registered for it
NothingEnqueued(c) ==
    /\ c \notin everQueued
    /\ \A i \in DOMAIN requestChan : requestChan[i] # c
    /\ respChans[c] = NoChan
    /\ \A k \in DOMAIN responseChan : responseChan[k] # c

\* the call c satisfies the secret check: no secret is configured, or its
\* X-API-Key is the secret
KeyAccepted(c) == apiKey = "" \/ callers[c].key = apiKey

\* C19 as stated: a call with an HTTP method other than POST and OPTIONS is
\* answered 405, with or without a valid secret, and a POST whose body is
\* not a parsable envelope is answered 400; nothing is enqueued in either
\* case.
C19_MethodAndBodyRejected ==
    \A c \in EndpointCallers : Arrived(c) =>
        /\ callers[c].httpMethod \notin {"POST", "OPTIONS"} =>
            callers[c].status = 405 /\ NothingEnqueued(c)
        /\ callers[c].httpMethod = "POST" /\ ~callers[c].parsable =>
            callers[c].status = 400 /\ NothingEnqueued(c)

\* C19 amended: a call with an HTTP method other than POST and OPTIONS is
\* answered 405, with or without a valid secret; a POST whose body is not a
\* parsable envelope is answered 400 when it satisfies the secret check and
\* 401 when a secret is configured and its key is missing or different;
\* nothing is enqueued in any of these cases.
C19_MethodThenKeyThenBody ==
    \A c \in EndpointCallers : Arrived(c) =>
        /\ callers[c].httpMethod \notin {"POST", "OPTIONS"} =>
            /\ callers[c].pc = "done"
            /\ callers[c].status = 405
            /\ NothingEnqueued(c)
        /\ callers[c].httpMethod = "POST" /\ ~callers[c].parsable =>
            /\ callers[c].pc = "done"
            /\ callers[c].status = IF KeyAccepted(c) THEN 400 ELSE 401
            /\ NothingEnqueued(c)

\* a POST with the right key and an unparsable body was answered 400, with a
\* secret configured
C19_Witness ==
    \E c \in EndpointCallers :
        /\ apiKey = Secret
        /\ callers[c].httpMethod = "POST"
        /\ callers[c].key = Secret
        /\ ~callers[c].parsable
        /\ callers[c].status = 400

\* C20: a preflight (OPTIONS) call is answered 200 at once and never reaches
\* the dispatcher: no request is enqueued and no response slot is registered
\* for it, whatever the configured secret and allow-list and whatever key,
\* origin and body the call carries.
C20_PreflightAnsweredDirectly ==
    \A c \in EndpointCallers : Arrived(c) /\ callers[c].httpMethod = "OPTIONS" =>
        /\ callers[c].pc = "done"
        /\ callers[c].status = 200
        /\ callers[c].req = NoReq
        /\ NothingEnqueued(c)
        /\ pc \in {"read", "readerr"}
        /\ cur = NoReq
        /\ resp = NilResp

\* a preflight call without the configured secret, from an origin that is
\* not on the allow-list, was answered 200
C20_Witness ==
    \E c \in EndpointCallers :
        /\ apiKey = Secret
        /\ corsOrigins = <<OriginA>>
        /\ callers[c].httpMethod = "OPTIONS"
        /\ callers[c].key = ""
        /\ callers[c].origin = OriginB
        /\ callers[c].status = 200

----------------------------------------------------------------------------
(* Properties of the CORS headers and the health endpoint (checked under   *)
(* SpecEndpoint)                                                           *)

\* the inbound calls of both endpoints that have been handled
HandledCalls == {c \in EndpointCallers \cup HealthCallers : Arrived(c)}

HasWildcard == \E i \in DOMAIN corsOrigins : corsOrigins[i] = "*"
Listed(o) == \E i \in DOMAIN corsOrigins : corsOrigins[i] = o

\* none of the other CORS headers is set
NoOtherCORSHeader(h) == h.allowMethods = "" /\ h.allowHeaders = "" /\ h.maxAge = ""
\* all of the other CORS headers are set
OtherCORSHeaders(h) ==
    /\ h.allowMethods = "GET, POST, OPTIONS"
    /\ h.allowHeaders = "Content-Type, X-API-Key"
    /\ h.maxAge = "3600"

\* C21 as stated: Access-Control-Allow-Origin is "*" when the allow-list
\* contains the wildcard, the caller's Origin when that origin is listed,
\* and absent when the caller's origin is not listed; when the origin is not
\* allowed no other CORS header is set either.
C21_AllowOriginAsStated ==
    \A c \in HandledCalls :
        LET o == callers[c].origin
            h == callers[c].cors
        IN  /\ HasWildcard => h.allowOrigin = "*"
            /\ ~HasWildcard /\ Listed(o) => h.allowOrigin = o
            /\ ~HasWildcard /\ ~Listed(o) => h.allowOrigin = "" /\ NoOtherCORSHeader(h)

\* C21 amended: the first entry of the allow-list that is the wildcard or
\* the caller's Origin decides: Access-Control-Allow-Origin is "*" when that
\* entry is the wildcard and the caller's Origin when it is that origin, and
\* the header is absent when no entry matches. The other CORS headers are
\* left out only when no entry matches and the call carries an Origin; a
\* call without an Origin header gets them even though no entry matches.
C21_FirstMatchDecides ==
    \A c \in HandledCalls :
        LET o == callers[c].origin
            h == callers[c].cors
            wild == {i \in DOMAIN corsOrigins : corsOrigins[i] = "*"}
            mine == {i \in DOMAIN corsOrigins : corsOrigins[i] = o}
        IN  /\ (wild # {} /\ \A j \in mine : \E i \in wild : i < j) =>
                h.allowOrigin = "*" /\ OtherCORSHeaders(h)
            /\ (mine # {} /\ \A i \in wild : \E j \in mine : j < i) =>
                h.allowOrigin = o /\ OtherCORSHeaders(h)
            /\ (wild = {} /\ mine = {}) =>
                /\ h.allowOrigin = ""
                /\ o # "" => NoOtherCORSHeader(h)
                /\ o = "" => OtherCORSHeaders(h)

\* a call from a listed origin got its own origin back although the
\* allow-list also holds the wildcard
C21_Witness ==
    \E c \in EndpointCallers :
        /\ Arrived(c)
        /\ corsOrigins = <<OriginA, "*">>
        /\ callers[c].origin = OriginA
        /\ callers[c].cors.allowOrigin = OriginA
        /\ OtherCORSHeaders(callers[c].cors)

\* the HTTP server is serving: the process is alive and server.Shutdown has
\* not closed the listener
Serving == Alive /\ Listening

\* C22: while the HTTP server is serving, a health call can be answered in
\* every state of the transport and the dispatcher (queue full, dispatcher
\* busy or stalled); it is answered 200, with the fixed body {status: ok}
\* unless it is a preflight call, whatever the configured secret and the
\* key it carries, and answering it changes neither the queue, the slot
\* map, the response channels nor the dispatcher.
C22_HealthAlwaysOk ==
    /\ [](\A h \in HealthCallers : Serving /\ callers[h].pc = "new" => ENABLED HealthCheck(h))
    /\ [][\A h \in HealthCallers : callers[h].pc = "new" /\ callers'[h].pc # "new" =>
            /\ callers'[h].status = 200
            /\ callers'[h].httpMethod # "OPTIONS" => callers'[h].body = [status |-> "ok"]
            /\ UNCHANGED <<requestChan, responseChan, respChans, sendTo, everQueued, dvars>>]_vars

\* a health call without the configured secret was answered 200 with the
\* fixed body while the request queue was full and the dispatcher had not
\* taken the request
C22_Witness ==
    \E h \in HealthCallers :
        /\ apiKey = Secret
        /\ callers[h].pc = "done"
        /\ callers[h].httpMethod = "GET"
        /\ callers[h].key = ""
        /\ callers[h].status = 200
        /\ callers[h].body = HealthBody
        /\ Len(requestChan) = QueueCap
        /\ pc = "read"

----------------------------------------------------------------------------
(* Properties of the queue, the slot map and shutdown (checked under       *)
(* SpecHTTP)                                                               *)

\* the slot map holds the response channel of the call c
SlotRegistered(c) == \E k \in DOMAIN responseChan : responseChan[k] = c
\* the request of the call c is on the queue
Queued(c) == \E i \in DOMAIN requestChan : requestChan[i] = c

\* C23: a caller whose enqueue timed out because the queue stayed full is
\* answered 503; its request was not put on the queue and is never
\* dispatched, and the slot map holds no slot for it.
C23_QueueFullRejected ==
    /\ [](\A c \in Callers : callers[c].status = 503 =>
              /\ callers[c].pc = "done"
              /\ c \notin everQueued
              /\ ~Queued(c)
              /\ ~SlotRegistered(c))
    /\ [][\A c \in Callers :
              callers[c].pc = "enqueue" /\ Len(requestChan) >= QueueCap
                  /\ callers'[c].pc # "enqueue" => callers'[c].status = 503]_vars

\* a caller was answered 503 while the request of another caller, which
\* filled the queue, went on to be dispatched
C23_Witness ==
    \E c \in Callers : \E d \in Callers \ {c} :
        /\ callers[c].status = 503
        /\ d \in everQueued
        /\ callers[d].status = 200

\* the call c has ended: its handler has replied and returned
Ended(c) == callers[c].pc \in {"done", "panic"}

\* C24: the slot map holds an entry for a call only between the dequeue of
\* its request and the end of the call; once the caller has its response
\* or its wait has timed out (504), no entry of that call is in the map.
C24_SlotOnlyDuringCall ==
    \A c \in Callers :
        SlotRegistered(c) => /\ c \in everQueued
                             /\ ~Queued(c)
                             /\ ~Ended(c)

\* the call c is blocked in the select that waits for its response
Waiting(c) == callers[c].pc = "wait"

\* C25 as stated: when shutdown releases the slots, every caller that is
\* waiting for its response, its request still queued or already dequeued,
\* is unblocked: its channel is closed or holds its response.
C25_ShutdownReleasesAll ==
    [][~routed /\ routed' =>
           \A c \in ShutdownCallers : Waiting(c) => respChans'[c].state # "empty"]_vars

\* C25: shutdown closes the channel of exactly the slots registered in the
\* map, that is of the calls whose request was dequeued and whose entry is
\* still there (a response already in the channel stays in it); the
\* channel of a caller whose request is still queued or just taken off the
\* queue is left as it is, and that caller is unblocked by a response or by
\* its own wait timeout. No caller stays blocked in the wait while the
\* process lives.
C25_ShutdownReleasesRegistered ==
    /\ [][~routed /\ routed' =>
              /\ responseChan' = EmptyMap
              /\ \A c \in ShutdownCallers :
                     IF SlotRegistered(c)
                     THEN /\ respChans'[c].state = "closed"
                          /\ respChans'[c].msg = respChans[c].msg
                     ELSE respChans'[c] = respChans[c]]_vars
    /\ \A c \in ShutdownCallers : Waiting(c) ~> (~Waiting(c) \/ ~Alive)

\* shutdown has released the slots: one caller has received nil from its
\* closed channel while another, whose request is still queued, waits on a
\* channel that was not closed
C25_Witness ==
    \E c \in ShutdownCallers : \E d \in ShutdownCallers \ {c} :
        /\ routed
        /\ callers[c].pc = "cleanup" /\ respChans[c] = ClosedChan
        /\ Queued(d) /\ Waiting(d) /\ respChans[d] = EmptyChan

----------------------------------------------------------------------------
(* Properties of the dispatch loop, cancellation and deadlines (checked    *)
(* under SpecLifecycle)                                                    *)

\* ReadRequest takes a request off the queue in this step
Dequeues == Len(requestChan') < Len(requestChan)

\* C26: with callers parked concurrently, a request is dequeued only when
\* Run is at ReadRequest with nothing in hand, the response of the previous
\* request having been handed to WriteResponse; the dispatcher goes from
\* the dequeue to the store of the slot and from there to the handler, so
\* no two tool invocations overlap.
C26_OneAtATime ==
    /\ [][Dequeues =>
              /\ pc = "read" /\ cur = NoReq /\ resp = NilResp /\ adapterCalls = <<>>
              /\ pc' = "store" /\ httpReq' = Head(requestChan)]_vars
    /\ [][pc = "store" /\ pc' # "store" =>
              /\ pc' = "handle" /\ cur' = callers[httpReq].req
              /\ Len(requestChan') >= Len(requestChan)]_vars

\* a tool has been invoked for one caller while another caller is parked
\* with its request on the queue
C26_Witness ==
    \E c \in LifecycleCallers : \E d \in LifecycleCallers \ {c} :
        /\ pc = "write" /\ toolCalled # "" /\ adapterCalls # <<>>
        /\ cur = callers[c].req /\ SlotRegistered(c) /\ Waiting(c)
        /\ Queued(d) /\ Waiting(d)

\* a new inbound call is accepted in this step
Accepts == \E c \in LifecycleCallers : callers[c].pc = "new" /\ callers'[c].pc # "new"
\* handleRequest is applied to the request in hand in this step
Dispatches == pc = "handle" /\ pc' # "handle"

\* C27: once the context given to Server.Run is cancelled, no further
\* request is accepted, read or dispatched.
C27_CancelStopsLoops ==
    [][cancelled => ~Accepts /\ ~Dequeues /\ ~Dispatches]_vars

\* the adapter operation of the request in hand ended at its deadline
EndedAtDeadline(calls) == \E i \in DOMAIN calls : calls[i].out = "deadline"

\* C28: a tool invocation never leaves Run blocked in the adapter; when its
\* adapter call does not finish by itself the call ends at the deadline,
\* the result is an isError result and Run goes on to WriteResponse.
C28_ToolDeadline ==
    /\ [](pc = "blocked" => cur.method # "tools/call")
    /\ [][pc = "handle" /\ cur.method = "tools/call" /\ pc' # "handle" =>
              /\ pc' = "write"
              /\ EndedAtDeadline(adapterCalls') =>
                     /\ resp'.id = cur.id
                     /\ resp'.error = NoError
                     /\ resp'.result.isError = TRUE]_vars

\* a tool invocation whose adapter call stalled has ended with an isError
\* result
C28_Witness ==
    /\ pc = "write" /\ cur.method = "tools/call"
    /\ EndedAtDeadline(adapterCalls)
    /\ resp.result.isError = TRUE

\* C29: a ping never leaves Run blocked in the adapter liveness check.
C29_PingBounded == pc = "blocked" => cur.method # "ping"

----------------------------------------------------------------------------
(* Properties of the sequential transport's cycle (checked under SpecStdio) *)

\* C30: on the sequential transport a line is read only when Run is at
\* ReadRequest, no request being in hand; each write appends the response
\* of the request read last (without its newline when the second Write
\* fails), so responses go out in the order of the
\* requests; and whatever the id just answered, the next read may return
\* any request: the transport compares no ids.
C30_StdioSerialized ==
    /\ [][nread' # nread => pc = "read" /\ nread' = nread + 1 /\ stdout' = stdout]_vars
    /\ [][stdout' # stdout =>
              /\ pc = "write"
              /\ nread' = nread /\ cur' = cur
              /\ stdout' \in {WriteLine(stdout, resp, outcome) : outcome \in WriteOutcomes}
              /\ resp # NilResp => resp.id = cur.id]_vars
    /\ [](pc = "read" /\ nread < MaxLines =>
              \A req \in StdioRequests : ENABLED (StdioReadRequest /\ cur' = req))

\* the response for one id has been written and the next read has returned
\* a request with another id
C30_Witness ==
    /\ pc = "handle" /\ nread = 2 /\ Len(stdout) = 1
    /\ "id" \in DOMAIN stdout[1]
    /\ stdout[1].id # cur.id

----------------------------------------------------------------------------
(* Properties of startup (checked under SpecStartup)                       *)

\* the adapter's Connect was called and failed
ConnectFailed ==
    \E i \in DOMAIN adapterCalls :
        adapterCalls[i].op = "Connect" /\ adapterCalls[i].out = "err"

\* C31: when Connect fails, Run has returned an error: the transport was
\* not started, no request has been read, no response written, and nothing
\* happens afterwards.
C31_ConnectFailureAborts ==
    /\ [](ConnectFailed =>
              /\ pc = "failed"
              /\ nread = 0 /\ cur = NoReq /\ resp = NilResp /\ stdout = <<>>)
    /\ [][pc = "failed" => UNCHANGED vars]_vars

\* Run has returned the error of a failed Connect
C31_Witness == pc = "failed" /\ ConnectFailed

----------------------------------------------------------------------------
(* Properties of the tool registry and the tool handlers' arguments        *)
(* (checked under Spec)                                                    *)

\* the names tools/list returns
ListedNames == {toolDefs[i] : i \in DOMAIN toolDefs}

\* C32: the registry is what registerTools built and no request changes
\* it: tools/list always returns the same four tools in the same order,
\* each name once, and a tools/call invokes a handler exactly for the
\* listed names.
C32_RegistryFixed ==
    /\ toolDefs = registerTools.toolDefs
    /\ tools = registerTools.tools
    /\ toolDefs = <<"list_tables", "describe_table", "execute_readonly_query", "explain_query">>
    /\ \A i, j \in DOMAIN toolDefs : toolDefs[i] = toolDefs[j] => i = j
    /\ ListedNames = DOMAIN tools
    /\ Dispatched /\ cur.method = "tools/list" =>
           /\ resp.result.tools = toolDefs
           /\ toolCalled = ""
    /\ Dispatched /\ cur.method = "tools/call" /\ cur.params.decodable =>
           /\ cur.params.name \in ListedNames <=> toolCalled # ""
           /\ toolCalled # "" => toolCalled = registerTools.tools[cur.params.name]

\* explain_query, the tool registered last, has been invoked by a
\* tools/call
C32_Witness ==
    /\ Dispatched /\ cur.method = "tools/call"
    /\ cur.params.name = "explain_query"
    /\ toolCalled = "handleExplainQuery"

\* the argument a tool requires, as the request in hand carries it
RequiredArg ==
    IF cur.params.name = "describe_table" THEN cur.params.args.table_name
    ELSE cur.params.args.query
RequiredArgName == IF cur.params.name = "describe_table" THEN "table_name" ELSE "query"
\* missing, not a string, or the empty string
Unusable(a) == a.t # "string" \/ a.s = <<>>
\* a tools/call for a tool with a required argument has been dispatched
ArgToolDispatched ==
    /\ Dispatched /\ cur.method = "tools/call" /\ cur.params.decodable
    /\ cur.params.name \in {"describe_table", "execute_readonly_query", "explain_query"}

\* C33: when the required argument of describe_table,
\* execute_readonly_query or explain_query is missing, not a string or
\* empty, the handler fails at once: no Security Gate check, no adapter
\* call, and an isError result saying the argument is required.
C33_RequiredArgument ==
    ArgToolDispatched /\ Unusable(RequiredArg) =>
        /\ gateChecks = <<>>
        /\ adapterCalls = <<>>
        /\ resp = ToolFailure(cur, RequiredArgName \o " is required and must be a string")
        /\ resp.result.isError = TRUE

\* describe_table was called with a table_name that is not a string and
\* was refused without a check or an adapter call
C33_Witness ==
    /\ ArgToolDispatched /\ cur.params.name = "describe_table"
    /\ RequiredArg = NonString
    /\ resp.result.isError = TRUE /\ gateChecks = <<>> /\ adapterCalls = <<>>

----------------------------------------------------------------------------
(* Properties of the result text (checked under SpecResult)                *)

\* the row count the adapter reported for the request in hand
ReportedCount == adapterCalls[1].n
\* the text of the result
ResultTextOf(r) == r.result.content[1].text
\* the texts handleExecuteQuery can build for n rows, without the notice
PlainTexts(n) ==
    {"Query returned no rows.",
     "Query executed successfully. Returned " \o ToString(n) \o " rows:\n\n" \o Payload}
\* the text ends with the truncation notice for the cap
CarriesNotice(text, n, cap) == \E t \in PlainTexts(n) : text = t \o LimitNote(cap)

\* C34: for every cap and every reported count from 0 to the cap, the
\* result text carries the truncation notice exactly when the count has
\* reached the cap.
C34_NoticeAtCap ==
    /\ Dispatched /\ toolCalled = "handleExecuteQuery" /\ adapterCalls # <<>>
    /\ adapterCalls[1].out = "ok" /\ ~resp.result.isError
    =>  (CarriesNotice(ResultTextOf(resp), ReportedCount, maxRows) <=> ReportedCount >= maxRows)

----------------------------------------------------------------------------
(* Properties of read failures on the sequential transport (checked under  *)
(* SpecStdio)                                                              *)

\* C35: a line that does not unmarshal is a read failure only: nothing is
\* written for it, Run logs the error and calls ReadRequest again, and the
\* next request of the stream is then read and served; end of input ends
\* Run from ReadRequest with nothing more written and no error.
C35_MalformedLineSkipped ==
    /\ [][pc = "read" /\ pc' = "readerr" =>
              stdout' = stdout /\ cur' = cur /\ resp' = resp]_vars
    /\ [][pc = "readerr" =>
              pc' = "read" /\ stdout' = stdout /\ nread' = nread /\ cur' = cur]_vars
    /\ [](pc = "readerr" => ENABLED LogReadError)
    /\ [](pc = "read" /\ nread < MaxLines =>
              \A req \in StdioRequests : ENABLED (StdioReadRequest /\ cur' = req))
    /\ [][pc' = "done" /\ pc # "done" => pc = "read" /\ stdout' = stdout]_vars

\* the first line was malformed and produced no output; the request on the
\* second line has been handled and its response is about to be written
C35_Witness ==
    /\ pc = "write" /\ nread = 2 /\ stdout = <<>>
    /\ resp # NilResp /\ resp.id = cur.id

----------------------------------------------------------------------------
(* Properties of response correlation on the concurrent transport         *)
(* (checked under SpecHTTP)                                                *)

\* the call c finishes in this step: it deletes a key and replies
Finishes(c) ==
    /\ callers[c].pc \in {"cleanup", "expired"}
    /\ callers'[c].pc \notin {"cleanup", "expired"}

\* C36: a caller that finishes removes no slot but its own: every slot
\* registered for another call is still registered afterwards.
C36_RemovesOwnSlotOnly ==
    [][\A c \in Callers : Finishes(c) =>
           \A d \in Callers \ {c} : SlotRegistered(d) => SlotRegistered(d)']_vars

----------------------------------------------------------------------------
(* Properties of correlation under colliding ids (checked under            *)
(* SpecCorrelate)                                                          *)

\* the responses the dispatcher can produce for the request
ResponsesFor(req) == {handleRequest(req, ab).resp : ab \in AdapterOutcomes}

\* a response is put into the channel of the call c in this step
Delivered(c) == respChans'[c].state = "full" /\ respChans[c].state # "full"

\* C37: whatever a call finds in its channel or has received from it is a
\* response the dispatcher produced for that call's request, and a response
\* is only ever put into the channel of the call whose request is in hand;
\* this holds when ids collide, are absent, or the caller has timed out.
C37_NoForeignResponse ==
    /\ [](\A c \in CorrelateCallers :
              /\ callers[c].got # NilResp => callers[c].got \in ResponsesFor(callers[c].req)
              /\ respChans[c].state = "full" => respChans[c].msg \in ResponsesFor(callers[c].req))
    /\ [][\A c \in CorrelateCallers : Delivered(c) =>
              /\ pc = "send"
              /\ cur = callers[c].req
              /\ respChans'[c].msg = resp]_vars

\* two calls whose ids give the same key but whose requests differ have
\* both been answered with their own response
C37_Witness ==
    \E c \in CorrelateCallers : \E d \in CorrelateCallers \ {c} :
        /\ IdKey(callers[c].req.id) = IdKey(callers[d].req.id)
        /\ callers[c].req.method # callers[d].req.method
        /\ callers[c].status = 200 /\ callers[c].got \in ResponsesFor(callers[c].req)
        /\ callers[d].status = 200 /\ callers[d].got \in ResponsesFor(callers[d].req)

----------------------------------------------------------------------------
(* Properties of shutdown against the dispatcher and the callers (checked  *)
(* under SpecHTTP)                                                         *)

\* C38: the send of WriteResponse never meets a channel that shutdown has
\* closed: it delivers into an open channel or gives up with an error, and
\* Run goes on to the next ReadRequest.
C38_NoSendIntoClosedSlot ==
    [][pc = "send" /\ pc' # "send" =>
           /\ respChans[sendTo].state # "closed"
           /\ pc' = "read"]_vars

\* C39: every 200 written for a POST carries the envelope the dispatcher
\* produced for the request of that call, never the null envelope, also for
\* a caller whose slot was released by shutdown.
C39_EnvelopeOn200 ==
    \A c \in Callers :
        callers[c].httpMethod = "POST" /\ callers[c].status = 200 =>
            /\ callers[c].got # NilResp
            /\ callers[c].got \in ResponsesFor(callers[c].req)

\* C40: once the transport is closed, Run does not go back to ReadRequest
\* after the transport closed error: the step Run takes from the error
\* (the steps of the callers and of Close leave Run where it is) is its
\* return.
C40_RunEndsAfterClose ==
    [][ctxDone /\ pc = "readerr" /\ pc' # pc => pc' = "done"]_vars

====
